---- MODULE Spec2Model ----
(***************************************************************************)
(* Control logic of the Electronic-Lock sketches.                          *)
(*                                                                         *)
(* The main model is the "RFID - Improved Version" sketch                  *)
(* (src/unnamed/part_000, lines 276-805): one cooperative loop() that      *)
(* calls checkRFID, checkSerial, checkManualUnlock, handleUnlockTimer,     *)
(* handleSessionTimer and checkSleep in that order.  pc is the handler     *)
(* loop() calls next; "hold" is the delay(UNLOCK_TIME) inside              *)
(* checkManualUnlock and "asleep" is sleep_mode() inside enterSleepMode.   *)
(*                                                                         *)
(* Time is the value of millis(), an unsigned long (32 bits on the AVR),   *)
(* in milliseconds, with the sketch's own durations.  millis() grows       *)
(* between two handlers (Elapse) and inside every delay() of the code.     *)
(* The environment owns the raw button level, the card in the reader's     *)
(* field and the serial line.                                              *)
(***************************************************************************)
EXTENDS Integers, Sequences, FiniteSets, TLC

VARIABLES
  millis,             \* value millis() returns now
  solenoid,           \* level of SOLENOID_PIN: "HIGH" (unlocked) / "LOW"
  button,             \* raw level of MANUAL_UNLOCK_BTN (INPUT_PULLUP)
  card,               \* card in the reader's field, not yet halted
  unlockStartTime,
  sessionStartTime,
  lastActivityTime,
  lastDebounceTime,
  unlockTimerActive,
  sessionModeActive,
  unlockedByAuth,
  manualUnlocked,
  sleepEnabled,
  lastButtonState,
  buttonState,
  pc,                 \* handler loop() runs next, or "hold" / "asleep"
  budget,             \* environment events left that move the clock
  steadyFor,          \* ms the raw button level has kept its present value,
                      \* counted up to DEBOUNCE_DELAY + 1 (history only)
  rxPending,          \* Serial.available(): characters received, not yet read
  heldSinceUnlocked,  \* the raw button level is LOW and has been LOW ever
                      \* since a moment the door was unlocked (history only)
  sinceUnlock,        \* ms that millis() has counted since unlockStartTime,
  sinceSession,       \* sessionStartTime and lastActivityTime were last
  sinceActivity,      \* assigned, as plain numbers (history only)
  temporaryMessageActive,   \* the remaining ones belong to the OLED sketch
  statusScreenActive,
  tempMessageStartTime,
  statusScreenStartTime,
  lastDisplayUpdate,
  lastWatchdogReset,
  currentMillis,      \* millis() as read at the top of loop()
  screen              \* what the display shows

vars == <<millis, solenoid, button, card, unlockStartTime, sessionStartTime,
          lastActivityTime, lastDebounceTime, unlockTimerActive,
          sessionModeActive, unlockedByAuth, manualUnlocked, sleepEnabled,
          lastButtonState, buttonState, pc, budget, steadyFor, rxPending,
          heldSinceUnlocked, temporaryMessageActive, statusScreenActive,
          tempMessageStartTime, statusScreenStartTime, lastDisplayUpdate,
          lastWatchdogReset, currentMillis, screen, sinceUnlock,
          sinceSession, sinceActivity>>

\* the state of the display sketch
display == <<temporaryMessageActive, statusScreenActive, tempMessageStartTime,
             statusScreenStartTime, lastDisplayUpdate, lastWatchdogReset,
             currentMillis, screen>>

\* the history of the three timestamps
elapsed == <<sinceUnlock, sinceSession, sinceActivity>>

\* the receive buffer and the histories, followed only by the
\* specifications that need them
apart == <<rxPending, heldSinceUnlocked, display, elapsed>>

----------------------------------------------------------------------------
(* Bounds of the exploration *)

\* Environment events that move the clock (time passing between two handlers,
\* a card read, a serial command handled while locked) in one behaviour.
MaxAdvances == 2

\* the same budget in the specification of the manual override
MaxManualAdvances == 4

----------------------------------------------------------------------------
(* Program constants *)

UNLOCK_TIME == 10000
SESSION_DURATION == 7200000
SLEEP_AFTER_TIME == 60000
DEBOUNCE_DELAY == 50
\* the period of the watchdog that loop() feeds with wdt_reset() (WDTO_8S), ms
WATCHDOG_PERIOD == 8000

\* delay(100) twice per flash, three flashes (rejected card, rejected press)
FLASH_DELAY == 3 * (100 + 100)
\* delay(10) after each command processed while locked
SERIAL_DELAY == 10
\* delay(100) in enterSleepMode before sleep_mode()
SLEEP_ENTRY_DELAY == 100
\* setup(): two start-up flashes, delay(200) twice each
STARTUP_DELAY == 2 * (200 + 200)

\* unsigned long is 32 bits wide.  A value is kept as <<high, low>>, two
\* 16-bit halves (TLC's own integers end at 2^31 - 1), and ULong(n) is the
\* unsigned long holding the number n.
Half == 2 ^ 16
ULong(n) == <<(n \div Half) % Half, n % Half>>

\* a + b and a - b in unsigned long arithmetic (modulo 2^32)
Add(a, b) ==
  LET low == a[2] + b[2]
      high == a[1] + b[1] + (low \div Half)
  IN  <<high % Half, low % Half>>
Sub(a, b) ==
  LET low == a[2] - b[2]
      high == a[1] - b[1] - (IF low < 0 THEN 1 ELSE 0)
  IN  <<(high + Half) % Half, (low + Half) % Half>>

\* a >= b and a > b on unsigned long values
Geq(a, b) == a[1] > b[1] \/ (a[1] = b[1] /\ a[2] >= b[2])
Gt(a, b) == a[1] > b[1] \/ (a[1] = b[1] /\ a[2] > b[2])

\* authorizedUIDs[][4] = {{0xB3,0x4A,0x9E,0x29}, {0x12,0x34,0x56,0x78}}
authorizedUIDs == << <<179, 74, 158, 41>>, <<18, 52, 86, 120>> >>
NUM_AUTHORIZED_CARDS == Len(authorizedUIDs)
\* bytes of one allow-list entry
UID_BYTES == 4

----------------------------------------------------------------------------
(* Inputs *)

\* rfid.uid as MFRC522 fills it: size valid bytes in uidByte
Uid(bytes) == [size |-> Len(bytes), uidByte |-> bytes]
NoCard == Uid(<< >>)

\* Cards offered to the reader: the two allow-list entries, an identifier that
\* differs from entry 0 in its last byte only, one that joins the first half
\* of entry 0 to the second half of entry 1, and a 7-byte identifier whose
\* first four bytes are entry 0.
Candidates ==
  { Uid(<<179, 74, 158, 41>>),
    Uid(<<18, 52, 86, 120>>),
    Uid(<<179, 74, 158, 42>>),
    Uid(<<179, 74, 86, 120>>),
    Uid(<<179, 74, 158, 41, 1, 2, 3>>) }

\* Characters sent on the serial line
Whitespace == {"\n", "\r", " ", "\t"}
Commands == {"u", "U", "l", "L", "s", "S", "m", "M", "z", "Z", "x", "\n", " "}

\* Time that may pass between two handlers
Deltas == {DEBOUNCE_DELAY + 1, UNLOCK_TIME, SLEEP_AFTER_TIME + 1, SESSION_DURATION}

Phases == {"rfid", "serial", "button", "unlockTimer", "sessionTimer", "sleep"}

----------------------------------------------------------------------------
(* Helpers of the sketch *)

isDoorUnlocked == solenoid = "HIGH"

\* Authorized with the last byte left out of the comparison
AuthorizedButLastByte(uid) ==
  \E cardIdx \in 1..NUM_AUTHORIZED_CARDS :
    \A i \in 1..(UID_BYTES - 1) : uid.uidByte[i] = authorizedUIDs[cardIdx][i]

\* the comparison loops of checkRFID: some entry equals the first
\* UID_BYTES bytes of rfid.uid.uidByte
Authorized(uid) ==
  \E cardIdx \in 1..NUM_AUTHORIZED_CARDS :
    \A i \in 1..UID_BYTES : uid.uidByte[i] = authorizedUIDs[cardIdx][i]

\* Expired with > in place of >=
ExpiredLate(now, start, duration) == Gt(Sub(now, start), ULong(duration))

\* Expired as the comparison of millis() with the time the timer ends at
ExpiredAbsolute(now, start, duration) ==
  Geq(now, Add(start, ULong(duration)))

\* millis() - start >= duration, in unsigned long arithmetic
Expired(now, start, duration) == Geq(Sub(now, start), ULong(duration))

\* ManualEligible without the test of unlockedByAuth
ManualEligibleNoAuth == ~manualUnlocked \/ sessionModeActive

\* ManualEligible without the test of manualUnlocked
ManualEligibleRepeat == unlockedByAuth \/ sessionModeActive

\* the condition guarding the manual unlock in checkManualUnlock
ManualEligible == (unlockedByAuth /\ ~manualUnlocked) \/ sessionModeActive

\* toggleSessionMode(), called at time now
toggleSessionMode(now) ==
  /\ sessionModeActive' = ~sessionModeActive
  /\ sessionStartTime' = (IF ~sessionModeActive THEN now ELSE sessionStartTime)

\* unlockDoor that energizes the solenoid and does not arm the unlock timer
unlockDoorNoTimer(now) ==
  /\ solenoid' = "HIGH"
  /\ unlockStartTime' = now
  /\ unlockTimerActive' = unlockTimerActive
  /\ lastActivityTime' = now
  /\ unlockedByAuth' = TRUE
  /\ manualUnlocked' = FALSE
  /\ IF ~sessionModeActive
       THEN toggleSessionMode(now)
       ELSE UNCHANGED <<sessionModeActive, sessionStartTime>>

\* unlockDoor that restarts a session already active
unlockDoorRenews(now) ==
  /\ solenoid' = "HIGH"
  /\ unlockStartTime' = now
  /\ unlockTimerActive' = TRUE
  /\ lastActivityTime' = now
  /\ unlockedByAuth' = TRUE
  /\ manualUnlocked' = FALSE
  /\ sessionModeActive' = TRUE
  /\ sessionStartTime' = now

\* unlockDoor(), called at time now
unlockDoor(now) ==
  /\ solenoid' = "HIGH"
  /\ unlockStartTime' = now
  /\ unlockTimerActive' = TRUE
  /\ lastActivityTime' = now
  /\ unlockedByAuth' = TRUE
  /\ manualUnlocked' = FALSE
  /\ IF ~sessionModeActive
       THEN toggleSessionMode(now)
       ELSE UNCHANGED <<sessionModeActive, sessionStartTime>>

\* lockDoor that also clears the two authentication flags
lockDoorClearsAuth(now) ==
  /\ solenoid' = "LOW"
  /\ unlockTimerActive' = FALSE
  /\ lastActivityTime' = now
  /\ unlockedByAuth' = FALSE
  /\ manualUnlocked' = FALSE

\* lockDoor that leaves the unlock timer running
lockDoorKeepsTimer(now) ==
  /\ solenoid' = "LOW"
  /\ unlockTimerActive' = unlockTimerActive
  /\ lastActivityTime' = now
  /\ UNCHANGED <<unlockedByAuth, manualUnlocked>>

\* lockDoor(), called at time now; it assigns nothing else
lockDoor(now) ==
  /\ solenoid' = "LOW"
  /\ unlockTimerActive' = FALSE
  /\ lastActivityTime' = now
  /\ UNCHANGED <<unlockedByAuth, manualUnlocked>>

\* delay(ms): millis() is ms later when it returns
Delay(ms) ==
  /\ millis' = Add(millis, ULong(ms))
  /\ steadyFor' = IF steadyFor + ms > DEBOUNCE_DELAY
                    THEN DEBOUNCE_DELAY + 1
                    ELSE steadyFor + ms

\* an event of the environment is charged to the budget
Charge ==
  /\ budget > 0
  /\ budget' = budget - 1


----------------------------------------------------------------------------
(* State after setup() *)

\* a sketch without a display
noDisplay ==
  /\ temporaryMessageActive = FALSE
  /\ statusScreenActive = FALSE
  /\ tempMessageStartTime = <<0, 0>>
  /\ statusScreenStartTime = <<0, 0>>
  /\ lastDisplayUpdate = <<0, 0>>
  /\ lastWatchdogReset = <<0, 0>>
  /\ currentMillis = <<0, 0>>
  /\ screen = "none"

\* the sketch's variables after setup()
Setup ==
  /\ lastActivityTime = ULong(0)
  /\ millis = ULong(STARTUP_DELAY)
  /\ solenoid = "LOW"
  /\ button = "HIGH"
  /\ card = NoCard
  /\ unlockStartTime = ULong(0)
  /\ sessionStartTime = ULong(0)
  /\ lastDebounceTime = ULong(0)
  /\ unlockTimerActive = FALSE
  /\ sessionModeActive = FALSE
  /\ unlockedByAuth = FALSE
  /\ manualUnlocked = FALSE
  /\ sleepEnabled = TRUE
  /\ lastButtonState = "HIGH"
  /\ buttonState = "HIGH"
  /\ pc = "rfid"
  /\ steadyFor = DEBOUNCE_DELAY + 1
  /\ rxPending = 0
  /\ heldSinceUnlocked = FALSE
  /\ sinceUnlock = 0
  /\ sinceSession = 0
  /\ sinceActivity = 0
  /\ noDisplay

Init ==
  /\ Setup
  /\ budget = MaxAdvances

----------------------------------------------------------------------------
(* Environment *)

\* a card enters the reader's field, where the next poll of checkRFID() finds
\* it (a card that came earlier is found by the same poll), or it enters
\* during the delay(UNLOCK_TIME) of the manual unlock
PresentCard(c) ==
  /\ pc \in {"rfid", "hold"}
  /\ card = NoCard
  /\ card' = c
  /\ Charge
  /\ UNCHANGED <<millis, steadyFor, solenoid, button, unlockStartTime,
                 sessionStartTime,
                 lastActivityTime, lastDebounceTime, unlockTimerActive,
                 sessionModeActive, unlockedByAuth, manualUnlocked,
                 sleepEnabled, lastButtonState, buttonState, pc>>

\* the raw button level changes (pressed: LOW, released: HIGH) before the
\* code samples it: digitalRead in checkManualUnlock(), the wake interrupt
ButtonChange ==
  /\ pc \in {"button", "asleep"}
  /\ button' = (IF button = "HIGH" THEN "LOW" ELSE "HIGH")
  /\ steadyFor' = 0
  /\ UNCHANGED <<millis, solenoid, card, unlockStartTime, sessionStartTime,
                 lastActivityTime, lastDebounceTime, unlockTimerActive,
                 sessionModeActive, unlockedByAuth, manualUnlocked,
                 sleepEnabled, lastButtonState, buttonState, pc, budget>>

\* the timed unlock is running and has not reached UNLOCK_TIME yet
TimedUnlockPending ==
  /\ solenoid = "HIGH"
  /\ unlockTimerActive
  /\ ~Expired(millis, unlockStartTime, UNLOCK_TIME)

\* d milliseconds pass between two handlers of loop().  The time a running
\* timed unlock waits for always passes; any other is charged to the budget.
Elapse(d) ==
  /\ pc \in Phases
  /\ Delay(d)
  /\ IF TimedUnlockPending /\ d = UNLOCK_TIME
       THEN UNCHANGED budget
       ELSE Charge
  /\ UNCHANGED <<solenoid, button, card, unlockStartTime, sessionStartTime,
                 lastActivityTime, lastDebounceTime, unlockTimerActive,
                 sessionModeActive, unlockedByAuth, manualUnlocked,
                 sleepEnabled, lastButtonState, buttonState, pc>>

----------------------------------------------------------------------------
(* loop() of the RFID sketch, one action per handler call *)

\* checkRFID without its first test (isDoorUnlocked)
checkRFIDAlways ==
  /\ pc = "rfid"
  /\ pc' = "serial"
  /\ UNCHANGED <<button, lastDebounceTime, sleepEnabled, lastButtonState,
                 buttonState, budget>>
  /\ IF card = NoCard
       THEN UNCHANGED <<millis, steadyFor, solenoid, card, unlockStartTime,
                        sessionStartTime, lastActivityTime, unlockTimerActive,
                        sessionModeActive, unlockedByAuth, manualUnlocked>>
       ELSE /\ card' = NoCard
            /\ IF Authorized(card)
                 THEN /\ unlockDoor(millis)
                      /\ UNCHANGED <<millis, steadyFor>>
                 ELSE /\ Delay(FLASH_DELAY)
                      /\ lastActivityTime' = millis'
                      /\ UNCHANGED <<solenoid, unlockStartTime,
                                     sessionStartTime, unlockTimerActive,
                                     sessionModeActive, unlockedByAuth,
                                     manualUnlocked>>

\* checkRFID()
checkRFID ==
  /\ pc = "rfid"
  /\ pc' = "serial"
  /\ UNCHANGED <<button, lastDebounceTime, sleepEnabled, lastButtonState,
                 buttonState, budget>>
  /\ IF isDoorUnlocked \/ card = NoCard
       THEN \* already unlocked, or no new card present
            UNCHANGED <<millis, steadyFor, solenoid, card, unlockStartTime,
                        sessionStartTime, lastActivityTime, unlockTimerActive,
                        sessionModeActive, unlockedByAuth, manualUnlocked>>
       ELSE /\ card' = NoCard          \* PICC_HaltA()
            /\ IF Authorized(card)
                 THEN /\ unlockDoor(millis)
                      /\ UNCHANGED <<millis, steadyFor>>
                 ELSE /\ Delay(FLASH_DELAY)
                      /\ lastActivityTime' = millis'
                      /\ UNCHANGED <<solenoid, unlockStartTime,
                                     sessionStartTime, unlockTimerActive,
                                     sessionModeActive, unlockedByAuth,
                                     manualUnlocked>>

\* serialWhileUnlocked that also obeys the sleep toggle
serialWhileUnlockedToggles(c) ==
  /\ UNCHANGED <<unlockStartTime, sessionStartTime, sessionModeActive>>
  /\ sleepEnabled' = (IF c \in {"z", "Z"} THEN ~sleepEnabled ELSE sleepEnabled)
  /\ IF c \in {"l", "L"}
       THEN lockDoor(millis)
       ELSE /\ lastActivityTime' = millis
            /\ UNCHANGED <<solenoid, unlockTimerActive, unlockedByAuth,
                           manualUnlocked>>

\* what checkSerial() does with command c while the door is unlocked
serialWhileUnlocked(c) ==
  /\ UNCHANGED <<unlockStartTime, sessionStartTime, sessionModeActive,
                 sleepEnabled>>
  /\ IF c \in {"l", "L"}
       THEN lockDoor(millis)
       ELSE \* 's': printStatus(); any other command is skipped
            /\ lastActivityTime' = millis
            /\ UNCHANGED <<solenoid, unlockTimerActive, unlockedByAuth,
                           manualUnlocked>>

\* serialWhileLocked whose sleep command turns sleep off instead of toggling
serialWhileLockedSleepOff(c) ==
  IF c \in {"u", "U"}
    THEN /\ unlockDoor(millis)
         /\ UNCHANGED sleepEnabled
  ELSE IF c \in {"l", "L"}
    THEN /\ lockDoor(millis)
         /\ UNCHANGED <<unlockStartTime, sessionStartTime, sessionModeActive,
                        sleepEnabled>>
  ELSE IF c \in {"m", "M"}
    THEN /\ toggleSessionMode(millis)
         /\ lastActivityTime' = millis
         /\ UNCHANGED <<solenoid, unlockStartTime, unlockTimerActive,
                        unlockedByAuth, manualUnlocked, sleepEnabled>>
  ELSE /\ lastActivityTime' = millis
       /\ sleepEnabled' = (IF c \in {"z", "Z"} THEN FALSE ELSE sleepEnabled)
       /\ UNCHANGED <<solenoid, unlockStartTime, sessionStartTime,
                      unlockTimerActive, sessionModeActive, unlockedByAuth,
                      manualUnlocked>>

\* serialWhileLocked whose unlock command opens the door without marking
\* it as authenticated
serialWhileLockedPlainUnlock(c) ==
  IF c \in {"u", "U"}
    THEN /\ solenoid' = "HIGH"
         /\ unlockStartTime' = millis
         /\ unlockTimerActive' = TRUE
         /\ lastActivityTime' = millis
         /\ UNCHANGED <<sessionStartTime, sessionModeActive, unlockedByAuth,
                        manualUnlocked, sleepEnabled>>
  ELSE IF c \in {"l", "L"}
    THEN /\ lockDoor(millis)
         /\ UNCHANGED <<unlockStartTime, sessionStartTime, sessionModeActive,
                        sleepEnabled>>
  ELSE IF c \in {"m", "M"}
    THEN /\ toggleSessionMode(millis)
         /\ lastActivityTime' = millis
         /\ UNCHANGED <<solenoid, unlockStartTime, unlockTimerActive,
                        unlockedByAuth, manualUnlocked, sleepEnabled>>
  ELSE /\ lastActivityTime' = millis
       /\ sleepEnabled' = (IF c \in {"z", "Z"} THEN ~sleepEnabled
                                               ELSE sleepEnabled)
       /\ UNCHANGED <<solenoid, unlockStartTime, sessionStartTime,
                      unlockTimerActive, sessionModeActive, unlockedByAuth,
                      manualUnlocked>>

\* what checkSerial() does with command c while the door is locked
serialWhileLocked(c) ==
  IF c \in {"u", "U"}
    THEN /\ unlockDoor(millis)
         /\ UNCHANGED sleepEnabled
  ELSE IF c \in {"l", "L"}
    THEN /\ lockDoor(millis)
         /\ UNCHANGED <<unlockStartTime, sessionStartTime, sessionModeActive,
                        sleepEnabled>>
  ELSE IF c \in {"m", "M"}
    THEN /\ toggleSessionMode(millis)
         /\ lastActivityTime' = millis
         /\ UNCHANGED <<solenoid, unlockStartTime, unlockTimerActive,
                        unlockedByAuth, manualUnlocked, sleepEnabled>>
  ELSE \* 's': printStatus(); 'z': sleep toggle; else "Unknown command"
       /\ lastActivityTime' = millis
       /\ sleepEnabled' = (IF c \in {"z", "Z"} THEN ~sleepEnabled
                                               ELSE sleepEnabled)
       /\ UNCHANGED <<solenoid, unlockStartTime, sessionStartTime,
                      unlockTimerActive, sessionModeActive, unlockedByAuth,
                      manualUnlocked>>

\* one pass of the while loop of checkSerial(): character c is read
serialCommand(c) ==
  /\ pc = "serial"
  /\ pc' = "serial"
  /\ UNCHANGED <<button, card, lastDebounceTime, lastButtonState, buttonState>>
  /\ IF c \in Whitespace
       THEN /\ lastActivityTime' = millis
            /\ UNCHANGED <<millis, steadyFor, budget, solenoid, unlockStartTime,
                           sessionStartTime, unlockTimerActive,
                           sessionModeActive, unlockedByAuth, manualUnlocked,
                           sleepEnabled>>
     ELSE IF isDoorUnlocked
       THEN /\ serialWhileUnlocked(c)
            /\ UNCHANGED <<millis, steadyFor, budget>>
       ELSE /\ serialWhileLocked(c)
            /\ Delay(SERIAL_DELAY)
            /\ Charge

\* serialDone after which loop() leaves out checkManualUnlock()
serialDoneSkipsButton ==
  /\ pc = "serial"
  /\ pc' = "unlockTimer"
  /\ UNCHANGED <<millis, steadyFor, solenoid, button, card, unlockStartTime,
                 sessionStartTime, lastActivityTime, lastDebounceTime,
                 unlockTimerActive, sessionModeActive, unlockedByAuth,
                 manualUnlocked, sleepEnabled, lastButtonState, buttonState,
                 budget>>

\* Serial.available() == 0: checkSerial() returns
serialDone ==
  /\ pc = "serial"
  /\ pc' = "button"
  /\ UNCHANGED <<millis, steadyFor, solenoid, button, card, unlockStartTime,
                 sessionStartTime, lastActivityTime, lastDebounceTime,
                 unlockTimerActive, sessionModeActive, unlockedByAuth,
                 manualUnlocked, sleepEnabled, lastButtonState, buttonState,
                 budget>>

\* lastDebounceTime after the raw level was compared with lastButtonState
DebounceStart(reading) ==
  IF reading # lastButtonState THEN millis ELSE lastDebounceTime

\* DebouncedChange without the comparison with buttonState: a level that
\* has lasted is an event every time it is read
DebouncedChangeLevel(reading) ==
  Gt(Sub(millis, DebounceStart(reading)), ULong(DEBOUNCE_DELAY))

\* the raw level read now is accepted as the new debounced buttonState
DebouncedChange(reading) ==
  /\ Gt(Sub(millis, DebounceStart(reading)), ULong(DEBOUNCE_DELAY))
  /\ reading # buttonState

\* checkManualUnlock() below its first test, the door being locked: up to
\* its return or to the start of delay(UNLOCK_TIME)
debounceButton ==
  /\ lastDebounceTime' = DebounceStart(button)
  /\ IF ~DebouncedChange(button)
       THEN /\ pc' = "unlockTimer"
            /\ lastButtonState' = button
            /\ UNCHANGED <<millis, steadyFor, solenoid, lastActivityTime,
                           buttonState>>
     ELSE IF button = "HIGH"
       THEN \* debounced release
            /\ pc' = "unlockTimer"
            /\ buttonState' = button
            /\ lastButtonState' = button
            /\ UNCHANGED <<millis, steadyFor, solenoid, lastActivityTime>>
     ELSE IF ManualEligible
       THEN \* manual unlock: solenoid HIGH, then delay(UNLOCK_TIME)
            /\ pc' = "hold"
            /\ buttonState' = button
            /\ lastActivityTime' = millis
            /\ solenoid' = "HIGH"
            /\ UNCHANGED <<millis, steadyFor, lastButtonState>>
       ELSE \* rejected press: three red flashes
            /\ pc' = "unlockTimer"
            /\ buttonState' = button
            /\ lastButtonState' = button
            /\ lastActivityTime' = millis
            /\ Delay(FLASH_DELAY)
            /\ UNCHANGED solenoid

\* checkManualUnlock without its first test (isDoorUnlocked)
checkManualUnlockAlways ==
  /\ pc = "button"
  /\ UNCHANGED <<button, card, unlockStartTime, sessionStartTime,
                 unlockTimerActive, sessionModeActive, unlockedByAuth,
                 manualUnlocked, sleepEnabled, budget>>
  /\ debounceButton

\* checkManualUnlock()
checkManualUnlock ==
  /\ pc = "button"
  /\ UNCHANGED <<button, card, unlockStartTime, sessionStartTime,
                 unlockTimerActive, sessionModeActive, unlockedByAuth,
                 manualUnlocked, sleepEnabled, budget>>
  /\ IF isDoorUnlocked
       THEN \* button presses are ignored while unlocked
            /\ pc' = "unlockTimer"
            /\ UNCHANGED <<millis, steadyFor, solenoid, lastActivityTime,
                           lastDebounceTime, lastButtonState, buttonState>>
       ELSE debounceButton

\* manualHoldEnd that keeps the door open for a card that came meanwhile
manualHoldEndUnlessCard ==
  /\ pc = "hold"
  /\ pc' = "unlockTimer"
  /\ Delay(UNLOCK_TIME)
  /\ solenoid' = (IF card # NoCard THEN "HIGH" ELSE "LOW")
  /\ manualUnlocked' = TRUE
  /\ lastButtonState' = "LOW"
  /\ UNCHANGED <<button, card, unlockStartTime, sessionStartTime,
                 lastActivityTime, lastDebounceTime, unlockTimerActive,
                 sessionModeActive, unlockedByAuth, sleepEnabled, buttonState,
                 budget>>

\* the rest of the manual unlock: delay(UNLOCK_TIME) ends, the solenoid is
\* released and checkManualUnlock() returns (reading was LOW)
manualHoldEnd ==
  /\ pc = "hold"
  /\ pc' = "unlockTimer"
  /\ Delay(UNLOCK_TIME)
  /\ solenoid' = "LOW"
  /\ manualUnlocked' = TRUE
  /\ lastButtonState' = "LOW"
  /\ UNCHANGED <<button, card, unlockStartTime, sessionStartTime,
                 lastActivityTime, lastDebounceTime, unlockTimerActive,
                 sessionModeActive, unlockedByAuth, sleepEnabled, buttonState,
                 budget>>

\* handleUnlockTimer without the test of the elapsed time
handleUnlockTimerNoWait ==
  /\ pc = "unlockTimer"
  /\ pc' = "sessionTimer"
  /\ UNCHANGED <<millis, steadyFor, button, card, unlockStartTime,
                 sessionStartTime, lastDebounceTime, sessionModeActive,
                 sleepEnabled, lastButtonState, buttonState, budget>>
  /\ IF unlockTimerActive
       THEN /\ lockDoor(millis)
            /\ unlockTimerActive' = FALSE
       ELSE UNCHANGED <<solenoid, unlockTimerActive, lastActivityTime,
                        unlockedByAuth, manualUnlocked>>

\* handleUnlockTimer that stops the timer without a call of lockDoor()
handleUnlockTimerFlagOnly ==
  /\ pc = "unlockTimer"
  /\ pc' = "sessionTimer"
  /\ UNCHANGED <<millis, steadyFor, button, card, unlockStartTime,
                 sessionStartTime, lastDebounceTime, sessionModeActive,
                 sleepEnabled, lastButtonState, buttonState, budget,
                 solenoid, lastActivityTime, unlockedByAuth, manualUnlocked>>
  /\ unlockTimerActive' =
       (unlockTimerActive /\ ~Expired(millis, unlockStartTime, UNLOCK_TIME))

\* handleUnlockTimer()
handleUnlockTimer ==
  /\ pc = "unlockTimer"
  /\ pc' = "sessionTimer"
  /\ UNCHANGED <<millis, steadyFor, button, card, unlockStartTime,
                 sessionStartTime,
                 lastDebounceTime, sessionModeActive, sleepEnabled,
                 lastButtonState, buttonState, budget>>
  /\ IF unlockTimerActive /\ Expired(millis, unlockStartTime, UNLOCK_TIME)
       THEN /\ lockDoor(millis)
            /\ unlockTimerActive' = FALSE
       ELSE UNCHANGED <<solenoid, unlockTimerActive, lastActivityTime,
                        unlockedByAuth, manualUnlocked>>

\* handleSessionTimer that also locks the door when the session expires
handleSessionTimerLocks ==
  /\ pc = "sessionTimer"
  /\ pc' = "sleep"
  /\ UNCHANGED <<millis, steadyFor, button, card, unlockStartTime,
                 sessionStartTime, lastDebounceTime, sleepEnabled,
                 lastButtonState, buttonState, budget>>
  /\ IF sessionModeActive /\ Expired(millis, sessionStartTime, SESSION_DURATION)
       THEN /\ sessionModeActive' = FALSE
            /\ lockDoor(millis)
       ELSE UNCHANGED <<sessionModeActive, solenoid, lastActivityTime,
                        unlockTimerActive, unlockedByAuth, manualUnlocked>>

\* handleSessionTimer()
handleSessionTimer ==
  /\ pc = "sessionTimer"
  /\ pc' = "sleep"
  /\ UNCHANGED <<millis, steadyFor, solenoid, button, card, unlockStartTime,
                 sessionStartTime, lastActivityTime, lastDebounceTime,
                 unlockTimerActive, unlockedByAuth, manualUnlocked,
                 sleepEnabled, lastButtonState, buttonState, budget>>
  /\ IF sessionModeActive /\ Expired(millis, sessionStartTime, SESSION_DURATION)
       THEN sessionModeActive' = FALSE
       ELSE UNCHANGED sessionModeActive

\* SleepDue without the test of sleepEnabled
SleepDueAlthoughDisabled ==
  /\ Gt(Sub(millis, lastActivityTime), ULong(SLEEP_AFTER_TIME))
  /\ ~(solenoid = "HIGH")

\* SleepDue without the test of the solenoid pin
SleepDueUnlocked ==
  /\ sleepEnabled
  /\ Gt(Sub(millis, lastActivityTime), ULong(SLEEP_AFTER_TIME))

\* the tests of checkSleep() that lead to enterSleepMode()
SleepDue ==
  /\ sleepEnabled
  /\ Gt(Sub(millis, lastActivityTime), ULong(SLEEP_AFTER_TIME))
  /\ ~(solenoid = "HIGH")

\* checkSleep(), up to its return or to sleep_mode() inside enterSleepMode()
checkSleep ==
  /\ pc = "sleep"
  /\ UNCHANGED <<solenoid, button, card, unlockStartTime, sessionStartTime,
                 lastActivityTime, lastDebounceTime, unlockTimerActive,
                 sessionModeActive, unlockedByAuth, manualUnlocked,
                 sleepEnabled, lastButtonState, buttonState, budget>>
  /\ IF SleepDue
       THEN /\ pc' = "asleep"
            /\ Delay(SLEEP_ENTRY_DELAY)
       ELSE /\ pc' = "rfid"
            /\ UNCHANGED <<millis, steadyFor>>

\* wakeUp after which lastActivityTime is not reset
wakeUpStale ==
  /\ pc = "asleep"
  /\ button = "LOW"
  /\ pc' = "rfid"
  /\ UNCHANGED <<millis, steadyFor, solenoid, button, card, unlockStartTime,
                 sessionStartTime, lastActivityTime, lastDebounceTime,
                 unlockTimerActive, sessionModeActive, unlockedByAuth,
                 manualUnlocked, sleepEnabled, lastButtonState, buttonState,
                 budget>>

\* the wake interrupt (button pin LOW) ends sleep_mode(); the rest of
\* enterSleepMode() runs and loop() starts over
wakeUp ==
  /\ pc = "asleep"
  /\ button = "LOW"
  /\ pc' = "rfid"
  /\ lastActivityTime' = millis
  /\ UNCHANGED <<millis, steadyFor, solenoid, button, card, unlockStartTime,
                 sessionStartTime, lastDebounceTime, unlockTimerActive,
                 sessionModeActive, unlockedByAuth, manualUnlocked,
                 sleepEnabled, lastButtonState, buttonState, budget>>

\* one step of the sketch itself
Step ==
  \/ checkRFID /\ UNCHANGED apart
  \/ serialDone /\ UNCHANGED apart
  \/ checkManualUnlock /\ UNCHANGED apart
  \/ manualHoldEnd /\ UNCHANGED apart
  \/ handleUnlockTimer /\ UNCHANGED apart
  \/ handleSessionTimer /\ UNCHANGED apart
  \/ checkSleep /\ UNCHANGED apart
  \/ wakeUp /\ UNCHANGED apart

Next ==
  \/ \E c \in Candidates : PresentCard(c) /\ UNCHANGED apart
  \/ ButtonChange /\ UNCHANGED apart
  \/ \E d \in Deltas : Elapse(d) /\ UNCHANGED apart
  \/ \E c \in Commands : serialCommand(c) /\ UNCHANGED apart
  \/ Step

Spec == Init /\ [][Next]_vars

\* loop() runs forever, so the sketch always takes its next step (while
\* serial input comes in finite bursts), and the clock reaches the end of a
\* running timed unlock
Fairness ==
  /\ WF_vars(Step)
  /\ WF_vars(TimedUnlockPending /\ Elapse(UNLOCK_TIME) /\ UNCHANGED apart)

LiveSpec == Spec /\ Fairness

----------------------------------------------------------------------------
(* The manual override in depth: one authorized card, the button, the
   session commands and the two times the override depends on *)

ManualDeltas == {DEBOUNCE_DELAY + 1, UNLOCK_TIME, SESSION_DURATION}

ManualCommands == {"m", "M"}

InitManual ==
  /\ Setup
  /\ budget = MaxManualAdvances

NextManual ==
  \/ PresentCard(Uid(authorizedUIDs[1])) /\ UNCHANGED apart
  \/ ButtonChange /\ UNCHANGED apart
  \/ \E d \in ManualDeltas : Elapse(d) /\ UNCHANGED apart
  \/ \E c \in ManualCommands : serialCommand(c) /\ UNCHANGED apart
  \/ Step

SpecManual == InitManual /\ [][NextManual]_vars

----------------------------------------------------------------------------
(* The serial receive buffer: checkSerial() reads while Serial.available()
   is positive, and the UART goes on receiving while the sketch runs *)

\* characters the model lets wait in the receive buffer
MaxPending == 3

\* Serial.begin(9600)
BAUD == 9600

\* characters (10 bits each on the line) that can arrive during delay(ms)
CharsDuring(ms) == (BAUD * ms) \div 10000

\* the controller's own variables
sketch == <<millis, solenoid, button, card, unlockStartTime, sessionStartTime,
            lastActivityTime, lastDebounceTime, unlockTimerActive,
            sessionModeActive, unlockedByAuth, manualUnlocked, sleepEnabled,
            lastButtonState, buttonState, pc, budget, steadyFor>>

\* the UART stores a received character, whatever the sketch is doing
Receive ==
  /\ rxPending < MaxPending
  /\ rxPending' = rxPending + 1
  /\ UNCHANGED <<sketch, heldSinceUnlocked, display, elapsed>>

\* one pass of while (Serial.available() > 0): Serial.read() takes a
\* character out of the buffer, and the sender may go on during delay(10)
serialRead(c) ==
  /\ rxPending > 0
  /\ serialCommand(c)
  /\ \E k \in 0..CharsDuring(IF millis' = millis THEN 0 ELSE SERIAL_DELAY) :
       rxPending' = IF rxPending - 1 + k > MaxPending
                      THEN MaxPending
                      ELSE rxPending - 1 + k
  /\ UNCHANGED <<heldSinceUnlocked, display, elapsed>>

\* one step of the sketch; checkSerial() returns when the buffer is empty
StreamStep ==
  /\ pc = "serial" => rxPending = 0
  /\ Step

NextStream ==
  \/ \E c \in Candidates : PresentCard(c) /\ UNCHANGED apart
  \/ ButtonChange /\ UNCHANGED apart
  \/ \E d \in Deltas : Elapse(d) /\ UNCHANGED apart
  \/ Receive
  \/ \E c \in Commands : serialRead(c)
  \/ StreamStep

SpecStream == Init /\ [][NextStream]_vars

----------------------------------------------------------------------------
(* printStatus(): the session time the status report prints *)

\* milliseconds in the minute printStatus() divides by
MS_PER_MINUTE == 60000

\* a / d of an unsigned long a by a divisor d < 2^23, byte by byte from the
\* top so that no intermediate value leaves 31 bits
Div(a, d) ==
  LET b3 == a[1] \div 256
      b2 == a[1] % 256
      b1 == a[2] \div 256
      b0 == a[2] % 256
      v3 == b3
      v2 == (v3 % d) * 256 + b2
      v1 == (v2 % d) * 256 + b1
      v0 == (v1 % d) * 256 + b0
  IN  (((v3 \div d) * 256 + (v2 \div d)) * 256 + (v1 \div d)) * 256
        + (v0 \div d)

\* unsigned long sessionTimeLeft = SESSION_DURATION - (millis() - sessionStartTime)
sessionTimeLeft(now) ==
  Sub(ULong(SESSION_DURATION), Sub(now, sessionStartTime))

\* the minutes printStatus() prints after "Session time remaining: "
printStatus(now) == Div(sessionTimeLeft(now), MS_PER_MINUTE)

----------------------------------------------------------------------------
(* The press that lasts from an unlocked period into the locked one *)

\* the history of the raw level over one step: the level is LOW after the
\* step, and the door is unlocked then or the level was already LOW and
\* held since an unlocked moment
TrackPress ==
  /\ heldSinceUnlocked' = (/\ button' = "LOW"
                           /\ \/ solenoid' = "HIGH"
                              \/ (heldSinceUnlocked /\ button = "LOW"))
  /\ UNCHANGED <<rxPending, display, elapsed>>

NextPress ==
  \/ \E c \in Candidates : PresentCard(c) /\ TrackPress
  \/ ButtonChange /\ TrackPress
  \/ \E d \in Deltas : Elapse(d) /\ TrackPress
  \/ \E c \in Commands : serialCommand(c) /\ TrackPress
  \/ checkRFID /\ TrackPress
  \/ serialDone /\ TrackPress
  \/ checkManualUnlock /\ TrackPress
  \/ manualHoldEnd /\ TrackPress
  \/ handleUnlockTimer /\ TrackPress
  \/ handleSessionTimer /\ TrackPress
  \/ checkSleep /\ TrackPress
  \/ wakeUp /\ TrackPress

SpecPress == Init /\ [][NextPress]_vars

----------------------------------------------------------------------------
(* lock_v1: the first sketch, a serial lock with a manual re-unlock button.
   It has its own setup() and loop(); its globals carry the same names as
   those of the RFID sketch and are kept in the same variables. *)

\* Serial commands and passes of the 500 ms button delay in one behaviour
\* of lock_v1, added to the clock events counted by budget
MaxV1Advances == 4

\* const int unlockTime
unlockTime == 3000

\* delay(500) of a pressed button at the top of loop()
V1_BUTTON_DELAY == 500

\* delay(300) after the manual re-unlock
V1_REUNLOCK_DELAY == 300

\* a time shorter than unlockTime between two events
V1_SHORT == 1000

V1Deltas == {V1_SHORT, unlockTime}

V1Commands == {"u", "U", "l", "L", "s", "x"}

V1Phases == {"v1_pressed", "v1_timer", "v1_command", "v1_manual"}

\* what lock_v1 does not have
v1Rest == <<card, sessionStartTime, lastActivityTime, lastDebounceTime,
            sessionModeActive, sleepEnabled, lastButtonState, buttonState,
            steadyFor, rxPending, heldSinceUnlocked, display, elapsed>>

\* delay(ms) in lock_v1
v1_delay(ms) == millis' = Add(millis, ULong(ms))

\* unlockDoor() of lock_v1 that leaves a running timer as it is
v1_unlockDoorKeepsStart ==
  /\ solenoid' = "HIGH"
  /\ unlockStartTime' = (IF unlockTimerActive THEN unlockStartTime ELSE millis)
  /\ unlockTimerActive' = TRUE
  /\ unlockedByAuth' = TRUE
  /\ manualUnlocked' = FALSE

\* unlockDoor() of lock_v1
v1_unlockDoor ==
  /\ solenoid' = "HIGH"
  /\ unlockStartTime' = millis
  /\ unlockTimerActive' = TRUE
  /\ unlockedByAuth' = TRUE
  /\ manualUnlocked' = FALSE

\* lockDoor() of lock_v1
v1_lockDoor ==
  /\ solenoid' = "LOW"
  /\ unlockTimerActive' = FALSE
  /\ UNCHANGED <<unlockStartTime, unlockedByAuth, manualUnlocked>>

\* lock_v1 after setup()
v1_setup ==
  /\ millis = ULong(0)
  /\ solenoid = "LOW"
  /\ button = "HIGH"
  /\ unlockStartTime = ULong(0)
  /\ unlockTimerActive = FALSE
  /\ unlockedByAuth = FALSE
  /\ manualUnlocked = FALSE
  /\ pc = "v1_pressed"

InitV1 ==
  /\ v1_setup
  /\ budget = MaxV1Advances
  /\ card = NoCard
  /\ sessionStartTime = ULong(0)
  /\ lastActivityTime = ULong(0)
  /\ lastDebounceTime = ULong(0)
  /\ sessionModeActive = FALSE
  /\ sleepEnabled = FALSE
  /\ lastButtonState = "HIGH"
  /\ buttonState = "HIGH"
  /\ steadyFor = 0
  /\ rxPending = 0
  /\ heldSinceUnlocked = FALSE
  /\ sinceUnlock = 0
  /\ sinceSession = 0
  /\ sinceActivity = 0
  /\ noDisplay

\* the button is pressed or released before one of the two digitalRead()
v1_ButtonChange ==
  /\ pc \in {"v1_pressed", "v1_manual"}
  /\ button' = (IF button = "HIGH" THEN "LOW" ELSE "HIGH")
  /\ UNCHANGED <<millis, solenoid, unlockStartTime, unlockTimerActive,
                 unlockedByAuth, manualUnlocked, pc, budget, v1Rest>>

\* the timed unlock of lock_v1 is running and has not reached unlockTime
v1_TimedUnlockPending ==
  /\ solenoid = "HIGH"
  /\ unlockTimerActive
  /\ ~Expired(millis, unlockStartTime, unlockTime)

\* d milliseconds pass between two statements of loop()
v1_Elapse(d) ==
  /\ pc \in V1Phases
  /\ v1_delay(d)
  /\ IF v1_TimedUnlockPending /\ d = unlockTime
       THEN UNCHANGED budget
       ELSE Charge
  /\ UNCHANGED <<solenoid, button, unlockStartTime, unlockTimerActive,
                 unlockedByAuth, manualUnlocked, pc, v1Rest>>

\* if (digitalRead(manualUnlockButton) == LOW) { ...; delay(500); }
v1_pressed ==
  /\ pc = "v1_pressed"
  /\ pc' = "v1_timer"
  /\ IF button = "LOW"
       THEN v1_delay(V1_BUTTON_DELAY) /\ Charge
       ELSE UNCHANGED <<millis, budget>>
  /\ UNCHANGED <<solenoid, button, unlockStartTime, unlockTimerActive,
                 unlockedByAuth, manualUnlocked, v1Rest>>

\* the timer check of lock_v1 that keeps counting from the first unlock
v1_timerNoWait ==
  /\ pc = "v1_timer"
  /\ pc' = "v1_command"
  /\ IF unlockTimerActive
       THEN v1_lockDoor
       ELSE UNCHANGED <<solenoid, unlockTimerActive, unlockStartTime,
                        unlockedByAuth, manualUnlocked>>
  /\ UNCHANGED <<millis, button, budget, v1Rest>>

\* if (unlockTimerActive) { if (millis() - unlockStartTime >= unlockTime) ... }
v1_timer ==
  /\ pc = "v1_timer"
  /\ pc' = "v1_command"
  /\ IF unlockTimerActive /\ Expired(millis, unlockStartTime, unlockTime)
       THEN v1_lockDoor
       ELSE UNCHANGED <<solenoid, unlockTimerActive, unlockStartTime,
                        unlockedByAuth, manualUnlocked>>
  /\ UNCHANGED <<millis, button, budget, v1Rest>>

\* if (Serial.available() > 0): one character c is read and obeyed
v1_command(c) ==
  /\ pc = "v1_command"
  /\ pc' = "v1_manual"
  /\ Charge
  /\ IF c \in {"u", "U"}
       THEN v1_unlockDoor
     ELSE IF c \in {"l", "L"}
       THEN v1_lockDoor
     ELSE UNCHANGED <<solenoid, unlockStartTime, unlockTimerActive,
                      unlockedByAuth, manualUnlocked>>
  /\ UNCHANGED <<millis, button, v1Rest>>

\* Serial.available() is 0
v1_noCommand ==
  /\ pc = "v1_command"
  /\ pc' = "v1_manual"
  /\ UNCHANGED <<millis, solenoid, button, unlockStartTime, unlockTimerActive,
                 unlockedByAuth, manualUnlocked, budget, v1Rest>>

\* the manual re-unlock of lock_v1 without the test of manualUnlocked
v1_manualRepeats ==
  /\ pc = "v1_manual"
  /\ IF button = "LOW" /\ unlockedByAuth
       THEN /\ solenoid' = "HIGH"
            /\ pc' = "v1_hold"
       ELSE /\ pc' = "v1_pressed"
            /\ UNCHANGED solenoid
  /\ UNCHANGED <<millis, button, unlockStartTime, unlockTimerActive,
                 unlockedByAuth, manualUnlocked, budget, v1Rest>>

\* if (digitalRead(manualUnlockButton) == LOW) { if (unlockedByAuth &&
\* !manualUnlocked) { digitalWrite(solenoidPin, HIGH); ...: up to the start
\* of delay(unlockTime), or to the end of loop()
v1_manual ==
  /\ pc = "v1_manual"
  /\ IF button = "LOW" /\ unlockedByAuth /\ ~manualUnlocked
       THEN /\ solenoid' = "HIGH"
            /\ pc' = "v1_hold"
       ELSE /\ pc' = "v1_pressed"
            /\ UNCHANGED solenoid
  /\ UNCHANGED <<millis, button, unlockStartTime, unlockTimerActive,
                 unlockedByAuth, manualUnlocked, budget, v1Rest>>

\* the rest of the manual re-unlock: delay(unlockTime), solenoid LOW,
\* manualUnlocked = true, delay(300), end of loop()
v1_holdEnd ==
  /\ pc = "v1_hold"
  /\ pc' = "v1_pressed"
  /\ v1_delay(unlockTime + V1_REUNLOCK_DELAY)
  /\ solenoid' = "LOW"
  /\ manualUnlocked' = TRUE
  /\ UNCHANGED <<button, unlockStartTime, unlockTimerActive, unlockedByAuth,
                 budget, v1Rest>>

\* one step of lock_v1 itself
v1_loop ==
  \/ v1_pressed
  \/ v1_timer
  \/ v1_noCommand
  \/ v1_manual
  \/ v1_holdEnd

NextV1 ==
  \/ v1_ButtonChange
  \/ \E d \in V1Deltas : v1_Elapse(d)
  \/ \E c \in V1Commands : v1_command(c)
  \/ v1_loop

SpecV1 == InitV1 /\ [][NextV1]_vars

----------------------------------------------------------------------------
(* The sketch with the OLED display: RFID unlock, unlock timer and the
   display that goes from a temporary message to the status screen and back
   to the intro screen.  It has its own setup() and loop(); DEBUG is false,
   so that checkSerial() is never called and there is no button. *)

\* cards presented and stretches of time without a timer in one behaviour
MaxDisplayAdvances == 2

TEMP_MESSAGE_DURATION == 3000
STATUS_DISPLAY_DURATION == 10000
DISPLAY_UPDATE_RATE == 250

\* the two delay(100) of setup()
O_STARTUP_DELAY == 100 + 100

\* a time shorter than DISPLAY_UPDATE_RATE, and one that ends that much
\* before TEMP_MESSAGE_DURATION
O_SHORT == 100
O_ALMOST == TEMP_MESSAGE_DURATION - O_SHORT

ODeltas == {O_SHORT, O_ALMOST, DISPLAY_UPDATE_RATE, TEMP_MESSAGE_DURATION,
            STATUS_DISPLAY_DURATION}

OCards == {Uid(authorizedUIDs[1]), Uid(<<179, 74, 158, 42>>)}

OPhases == {"o_top", "o_rfid", "o_serial", "o_unlockTimer", "o_display"}

\* what the display sketch does not have, or never changes
oRest == <<button, sessionStartTime, lastDebounceTime, sessionModeActive,
           sleepEnabled, lastButtonState, buttonState, steadyFor, rxPending,
           heldSinceUnlocked, elapsed>>

\* showTemporaryMessage()
showTemporaryMessage(now) ==
  /\ screen' = "message"
  /\ temporaryMessageActive' = TRUE
  /\ tempMessageStartTime' = now
  /\ UNCHANGED <<statusScreenActive, statusScreenStartTime>>

\* updateDisplay() that goes from the temporary message straight back to the
\* intro screen
updateDisplayNoStatus(now) ==
  IF temporaryMessageActive
    THEN IF Expired(now, tempMessageStartTime, TEMP_MESSAGE_DURATION)
           THEN /\ temporaryMessageActive' = FALSE
                /\ screen' = "intro"
                /\ UNCHANGED <<statusScreenActive, statusScreenStartTime,
                               tempMessageStartTime>>
           ELSE UNCHANGED <<temporaryMessageActive, statusScreenActive,
                            tempMessageStartTime, statusScreenStartTime,
                            screen>>
  ELSE IF statusScreenActive
    THEN IF Expired(now, statusScreenStartTime, STATUS_DISPLAY_DURATION)
           THEN /\ statusScreenActive' = FALSE
                /\ screen' = "intro"
                /\ UNCHANGED <<temporaryMessageActive, tempMessageStartTime,
                               statusScreenStartTime>>
           ELSE UNCHANGED <<temporaryMessageActive, statusScreenActive,
                            tempMessageStartTime, statusScreenStartTime,
                            screen>>
  ELSE UNCHANGED <<temporaryMessageActive, statusScreenActive,
                   tempMessageStartTime, statusScreenStartTime, screen>>

\* updateDisplay(); showStatus() and showIntroScreen() draw the screen
updateDisplay(now) ==
  IF temporaryMessageActive
    THEN IF Expired(now, tempMessageStartTime, TEMP_MESSAGE_DURATION)
           THEN /\ temporaryMessageActive' = FALSE
                /\ screen' = "status"
                /\ statusScreenActive' = TRUE
                /\ statusScreenStartTime' = now
                /\ UNCHANGED tempMessageStartTime
           ELSE UNCHANGED <<temporaryMessageActive, statusScreenActive,
                            tempMessageStartTime, statusScreenStartTime,
                            screen>>
  ELSE IF statusScreenActive
    THEN IF Expired(now, statusScreenStartTime, STATUS_DISPLAY_DURATION)
           THEN /\ statusScreenActive' = FALSE
                /\ screen' = "intro"
                /\ UNCHANGED <<temporaryMessageActive, tempMessageStartTime,
                               statusScreenStartTime>>
           ELSE UNCHANGED <<temporaryMessageActive, statusScreenActive,
                            tempMessageStartTime, statusScreenStartTime,
                            screen>>
  ELSE UNCHANGED <<temporaryMessageActive, statusScreenActive,
                   tempMessageStartTime, statusScreenStartTime, screen>>

\* unlockDoor() of the display sketch
o_unlockDoor ==
  /\ solenoid' = "HIGH"
  /\ unlockStartTime' = millis
  /\ unlockTimerActive' = TRUE
  /\ lastActivityTime' = millis
  /\ unlockedByAuth' = TRUE
  /\ manualUnlocked' = FALSE

\* lockDoor() of the display sketch, which ends with showTemporaryMessage()
o_lockDoor ==
  /\ solenoid' = "LOW"
  /\ unlockTimerActive' = FALSE
  /\ lastActivityTime' = millis
  /\ showTemporaryMessage(millis)
  /\ UNCHANGED <<unlockStartTime, unlockedByAuth, manualUnlocked>>

\* the display sketch after setup(), the intro screen shown
o_setup ==
  /\ millis = ULong(O_STARTUP_DELAY)
  /\ solenoid = "LOW"
  /\ card = NoCard
  /\ unlockStartTime = ULong(0)
  /\ lastActivityTime = ULong(O_STARTUP_DELAY \div 2)
  /\ unlockTimerActive = FALSE
  /\ unlockedByAuth = FALSE
  /\ manualUnlocked = FALSE
  /\ sleepEnabled = TRUE
  /\ temporaryMessageActive = FALSE
  /\ statusScreenActive = FALSE
  /\ tempMessageStartTime = ULong(0)
  /\ statusScreenStartTime = ULong(0)
  /\ lastDisplayUpdate = ULong(0)
  /\ lastWatchdogReset = ULong(O_STARTUP_DELAY)
  /\ currentMillis = ULong(0)
  /\ screen = "intro"
  /\ pc = "o_top"

InitDisplay ==
  /\ o_setup
  /\ budget = MaxDisplayAdvances
  /\ button = "HIGH"
  /\ sessionStartTime = ULong(0)
  /\ lastDebounceTime = ULong(0)
  /\ sessionModeActive = FALSE
  /\ lastButtonState = "HIGH"
  /\ buttonState = "HIGH"
  /\ steadyFor = 0
  /\ rxPending = 0
  /\ heldSinceUnlocked = FALSE
  /\ sinceUnlock = 0
  /\ sinceSession = 0
  /\ sinceActivity = 0

\* a card enters the reader's field
o_PresentCard(c) ==
  /\ pc = "o_rfid"
  /\ card = NoCard
  /\ card' = c
  /\ Charge
  /\ UNCHANGED <<millis, solenoid, unlockStartTime, lastActivityTime,
                 unlockTimerActive, unlockedByAuth, manualUnlocked, pc,
                 display, oRest>>

\* the screen shown has had its time: the next updateDisplay() changes it
ScreenChangeDue ==
  IF temporaryMessageActive
    THEN Expired(millis, tempMessageStartTime, TEMP_MESSAGE_DURATION)
    ELSE /\ statusScreenActive
         /\ Expired(millis, statusScreenStartTime, STATUS_DISPLAY_DURATION)

\* a timer of the sketch is running and d is the time it waits for: the
\* unlock timer, the temporary message, the status screen, or the rate limit
\* of the display when a change of screen is due
o_TimerPending(d) ==
  \/ /\ d = UNLOCK_TIME
     /\ unlockTimerActive
     /\ ~Expired(millis, unlockStartTime, UNLOCK_TIME)
  \/ /\ d = TEMP_MESSAGE_DURATION
     /\ temporaryMessageActive
     /\ ~Expired(millis, tempMessageStartTime, TEMP_MESSAGE_DURATION)
  \/ /\ d = STATUS_DISPLAY_DURATION
     /\ ~temporaryMessageActive
     /\ statusScreenActive
     /\ ~Expired(millis, statusScreenStartTime, STATUS_DISPLAY_DURATION)
  \/ /\ d = DISPLAY_UPDATE_RATE
     /\ ScreenChangeDue
     /\ ~Expired(millis, lastDisplayUpdate, DISPLAY_UPDATE_RATE)

\* d milliseconds pass before loop() reads millis() into currentMillis, or
\* between that and updateDisplay().  The time a running timer waits for
\* always passes; any other is charged to the budget.
o_Elapse(d) ==
  /\ pc \in {"o_top", "o_display"}
  /\ millis' = Add(millis, ULong(d))
  /\ IF o_TimerPending(d) THEN UNCHANGED budget ELSE Charge
  /\ UNCHANGED <<solenoid, card, unlockStartTime, lastActivityTime,
                 unlockTimerActive, unlockedByAuth, manualUnlocked, pc,
                 display, oRest>>

\* the top of loop(): currentMillis, and wdt_reset() every half period
o_loopTop ==
  /\ pc = "o_top"
  /\ pc' = "o_rfid"
  /\ currentMillis' = millis
  /\ lastWatchdogReset' =
       (IF Geq(Sub(millis, lastWatchdogReset), ULong(WATCHDOG_PERIOD \div 2))
          THEN millis
          ELSE lastWatchdogReset)
  /\ UNCHANGED <<millis, solenoid, card, unlockStartTime, lastActivityTime,
                 unlockTimerActive, unlockedByAuth, manualUnlocked, budget,
                 temporaryMessageActive, statusScreenActive,
                 tempMessageStartTime, statusScreenStartTime,
                 lastDisplayUpdate, screen, oRest>>

\* checkRFID() of the display sketch
o_checkRFID ==
  /\ pc = "o_rfid"
  /\ pc' = "o_serial"
  /\ UNCHANGED <<millis, budget, lastDisplayUpdate, lastWatchdogReset,
                 currentMillis, oRest>>
  /\ IF isDoorUnlocked \/ card = NoCard
       THEN UNCHANGED <<solenoid, card, unlockStartTime, lastActivityTime,
                        unlockTimerActive, unlockedByAuth, manualUnlocked,
                        temporaryMessageActive, statusScreenActive,
                        tempMessageStartTime, statusScreenStartTime, screen>>
     ELSE IF Authorized(card)
       THEN /\ showTemporaryMessage(millis)
            /\ o_unlockDoor
            /\ card' = NoCard
       ELSE /\ card' = NoCard
            /\ lastActivityTime' = millis
            /\ UNCHANGED <<solenoid, unlockStartTime, unlockTimerActive,
                           unlockedByAuth, manualUnlocked,
                           temporaryMessageActive, statusScreenActive,
                           tempMessageStartTime, statusScreenStartTime,
                           screen>>

\* DEBUG is false: loop() empties the serial buffer and obeys nothing
o_drainSerial ==
  /\ pc = "o_serial"
  /\ pc' = "o_unlockTimer"
  /\ UNCHANGED <<millis, solenoid, card, unlockStartTime, lastActivityTime,
                 unlockTimerActive, unlockedByAuth, manualUnlocked, budget,
                 display, oRest>>

\* handleUnlockTimer() of the display sketch
o_handleUnlockTimer ==
  /\ pc = "o_unlockTimer"
  /\ pc' = "o_display"
  /\ UNCHANGED <<millis, card, budget, lastDisplayUpdate, lastWatchdogReset,
                 currentMillis, oRest>>
  /\ IF unlockTimerActive /\ Expired(millis, unlockStartTime, UNLOCK_TIME)
       THEN o_lockDoor
       ELSE UNCHANGED <<solenoid, unlockStartTime, lastActivityTime,
                        unlockTimerActive, unlockedByAuth, manualUnlocked,
                        temporaryMessageActive, statusScreenActive,
                        tempMessageStartTime, statusScreenStartTime, screen>>

\* the end of loop(): updateDisplay() at most every DISPLAY_UPDATE_RATE ms
o_display ==
  /\ pc = "o_display"
  /\ pc' = "o_top"
  /\ UNCHANGED <<millis, solenoid, card, unlockStartTime, lastActivityTime,
                 unlockTimerActive, unlockedByAuth, manualUnlocked, budget,
                 lastWatchdogReset, currentMillis, oRest>>
  /\ IF Geq(Sub(currentMillis, lastDisplayUpdate), ULong(DISPLAY_UPDATE_RATE))
       THEN /\ lastDisplayUpdate' = currentMillis
            /\ updateDisplay(millis)
       ELSE UNCHANGED <<lastDisplayUpdate, temporaryMessageActive,
                        statusScreenActive, tempMessageStartTime,
                        statusScreenStartTime, screen>>

\* one step of the display sketch itself
o_loop ==
  \/ o_loopTop
  \/ o_checkRFID
  \/ o_drainSerial
  \/ o_handleUnlockTimer
  \/ o_display

NextDisplay ==
  \/ \E c \in OCards : o_PresentCard(c)
  \/ \E d \in ODeltas : o_Elapse(d)
  \/ o_loop

SpecDisplay == InitDisplay /\ [][NextDisplay]_vars

\* loop() runs forever, and the clock reaches the end of every running timer
\* (time passes at the two places of loop() where the model lets it pass,
\* which loop() comes back to again and again)
FairnessDisplay ==
  /\ WF_vars(o_loop)
  /\ SF_vars(\E d \in ODeltas : o_TimerPending(d) /\ o_Elapse(d))

LiveSpecDisplay == SpecDisplay /\ FairnessDisplay

-----------------------------------------------------------------------------
(* The overflow of millis(): the sketch has run for almost 2^32 ms *)

\* ms between the start of a behaviour and the overflow of millis()
WrapLeads == {1, UNLOCK_TIME \div 2, SLEEP_AFTER_TIME}

\* an unsigned long below 2^31 as a number
ToNat(x) == x[1] * Half + x[2]

\* loop() starts over shortly before millis() overflows.  The sketch has been
\* awake since setup(); the last thing it handled was a sleep toggle, taken
\* from Serial 10 ms earlier; no timer has been armed.
InitWrap ==
  /\ \E lead \in WrapLeads : millis = Sub(ULong(0), ULong(lead))
  /\ lastActivityTime = Sub(millis, ULong(SERIAL_DELAY))
  /\ sinceActivity = SERIAL_DELAY
  /\ sleepEnabled \in BOOLEAN
  /\ solenoid = "LOW"
  /\ button = "HIGH"
  /\ card = NoCard
  /\ unlockStartTime = ULong(0)
  /\ sessionStartTime = ULong(0)
  /\ lastDebounceTime = ULong(0)
  /\ unlockTimerActive = FALSE
  /\ sessionModeActive = FALSE
  /\ unlockedByAuth = FALSE
  /\ manualUnlocked = FALSE
  /\ lastButtonState = "HIGH"
  /\ buttonState = "HIGH"
  /\ pc = "rfid"
  /\ steadyFor = DEBOUNCE_DELAY + 1
  /\ budget = MaxAdvances
  /\ rxPending = 0
  /\ heldSinceUnlocked = FALSE
  /\ sinceUnlock = 0
  /\ sinceSession = 0
  /\ noDisplay

\* the ms counted since a timestamp was assigned, after a step that takes
\* the timestamp from start to start' and has counted since of them so far:
\* a step that assigns the timestamp leaves the ms of its own delays, any
\* other step adds the ms it lasts (no step lasts 2^32 ms)
Since(start, startAfter, since) ==
  IF startAfter # start
    THEN ToNat(Sub(millis', startAfter))
    ELSE since + ToNat(Sub(millis', millis))

TrackElapsed ==
  /\ sinceUnlock' = Since(unlockStartTime, unlockStartTime', sinceUnlock)
  /\ sinceSession' = Since(sessionStartTime, sessionStartTime', sinceSession)
  /\ sinceActivity' = Since(lastActivityTime, lastActivityTime', sinceActivity)
  /\ UNCHANGED <<rxPending, heldSinceUnlocked, display>>

NextWrap ==
  \/ \E c \in Candidates : PresentCard(c) /\ TrackElapsed
  \/ ButtonChange /\ TrackElapsed
  \/ \E d \in Deltas : Elapse(d) /\ TrackElapsed
  \/ \E c \in Commands : serialCommand(c) /\ TrackElapsed
  \/ checkRFID /\ TrackElapsed
  \/ serialDone /\ TrackElapsed
  \/ checkManualUnlock /\ TrackElapsed
  \/ manualHoldEnd /\ TrackElapsed
  \/ handleUnlockTimer /\ TrackElapsed
  \/ handleSessionTimer /\ TrackElapsed
  \/ checkSleep /\ TrackElapsed
  \/ wakeUp /\ TrackElapsed

SpecWrap == InitWrap /\ [][NextWrap]_vars

----------------------------------------------------------------------------
(* Properties *)

\* the identifier read from the card equals an allow-list entry, byte for
\* byte and in length
ExactMatch(uid) ==
  \E cardIdx \in 1..NUM_AUTHORIZED_CARDS : uid.uidByte = authorizedUIDs[cardIdx]

\* the step is a call of checkManualUnlock()
ButtonCheckStep == pc = "button" /\ pc' # "button"

\* the step is a call of checkManualUnlock() that registers a debounced press
PressStep ==
  /\ ButtonCheckStep
  /\ solenoid = "LOW"
  /\ button = "LOW"
  /\ DebouncedChange(button)

\* the step re-locks the door by handleUnlockTimer() or by a serial lock
RelockStep ==
  /\ pc \in {"serial", "unlockTimer"}
  /\ solenoid = "HIGH"
  /\ solenoid' = "LOW"

\* C1: checkRFID energizes the solenoid only for a card whose identifier
\* equals an allow-list entry in every byte; for every other card the
\* solenoid, unlockTimerActive, unlockedByAuth, manualUnlocked and
\* sessionModeActive are left unchanged.
C1_ExactMatchOnly ==
  [][(pc = "rfid" /\ card # NoCard /\ ~ExactMatch(card))
       => UNCHANGED <<solenoid, unlockTimerActive, unlockedByAuth,
                      manualUnlocked, sessionModeActive>>]_vars

\* C2: nothing but a re-lock stops or restarts a running unlock timer;
\* handleUnlockTimer re-locks in the first call that finds UNLOCK_TIME
\* elapsed since the most recent unlockDoor; an unlocked door is eventually
\* locked again.
C2_TimeoutWins ==
  /\ [][(solenoid = "HIGH" /\ unlockTimerActive /\ solenoid' = "HIGH")
          => (unlockTimerActive' /\ unlockStartTime' = unlockStartTime)]_vars
  /\ [][(pc = "unlockTimer" /\ pc' # "unlockTimer" /\ unlockTimerActive
            /\ Geq(Sub(millis, unlockStartTime), ULong(UNLOCK_TIME)))
          => (solenoid' = "LOW" /\ ~unlockTimerActive')]_vars
  /\ (solenoid = "HIGH") ~> (solenoid = "LOW")

\* the timer has just re-locked the door, exactly UNLOCK_TIME after the
\* unlock, while a card presented in the meantime is still waiting
C2_Witness ==
  /\ pc = "sessionTimer"
  /\ solenoid = "LOW"
  /\ ~unlockTimerActive
  /\ lastActivityTime = millis
  /\ millis = Add(unlockStartTime, ULong(UNLOCK_TIME))
  /\ card # NoCard

\* C11: checkManualUnlock registers a press only when the raw button level
\* has been LOW without interruption for longer than DEBOUNCE_DELAY, however
\* the calls are spaced.
C11_PressNeedsSteadyLow ==
  [][PressStep => steadyFor > DEBOUNCE_DELAY]_vars

\* C3 as claimed: whenever the door re-locks by timer expiry or by a serial
\* lock, unlockedByAuth and manualUnlocked are both false afterwards.
C3_RelockClearsAuth ==
  [][RelockStep => (~unlockedByAuth' /\ ~manualUnlocked')]_vars

\* C3 as amended: a re-lock by timer expiry or by a serial lock switches the
\* unlock timer off and leaves unlockedByAuth and manualUnlocked as they are.
C3_RelockKeepsAuth ==
  [][RelockStep => /\ ~unlockTimerActive'
                   /\ UNCHANGED <<unlockedByAuth, manualUnlocked>>]_vars

\* the door was re-locked by the timer in this tick, after an authenticated
\* unlock, and unlockedByAuth is still set
C3_Witness ==
  /\ pc = "sessionTimer"
  /\ solenoid = "LOW"
  /\ unlockedByAuth
  /\ ~unlockTimerActive
  /\ lastActivityTime = millis
  /\ Expired(millis, unlockStartTime, UNLOCK_TIME)

\* C4 as claimed: once the manual override was used after an accepted
\* credential (manualUnlocked set), no press is granted before the next
\* acceptance.
C4_OverrideOnce ==
  [][(PressStep /\ unlockedByAuth /\ manualUnlocked) => pc' # "hold"]_vars

\* C4 as amended: a press after an acceptance with manualUnlocked clear is
\* granted, the grant ends locked with manualUnlocked set, and from then on
\* every press made while session mode is inactive is rejected; only
\* unlockDoor clears manualUnlocked.
C4_OverrideOnceNoSession ==
  /\ [][(PressStep /\ unlockedByAuth /\ ~manualUnlocked)
          => (pc' = "hold" /\ solenoid' = "HIGH")]_vars
  /\ [][(pc = "hold" /\ pc' # "hold")
          => (manualUnlocked' /\ solenoid' = "LOW")]_vars
  /\ [][(PressStep /\ manualUnlocked /\ ~sessionModeActive)
          => /\ pc' = "unlockTimer"
             /\ UNCHANGED <<solenoid, manualUnlocked, unlockTimerActive>>]_vars
  /\ [][(manualUnlocked /\ ~manualUnlocked')
          => (solenoid' = "HIGH" /\ unlockStartTime' = millis)]_vars

\* a second press after a used override was just rejected, session mode
\* being over
C4_Witness ==
  /\ pc = "unlockTimer"
  /\ solenoid = "LOW"
  /\ buttonState = "LOW"
  /\ unlockedByAuth
  /\ manualUnlocked
  /\ ~sessionModeActive
  /\ millis = Add(lastActivityTime, ULong(FLASH_DELAY))

\* C5: whenever the solenoid is energized, the unlock timer is active,
\* except during the blocking hold of the manual override.
C5_UnlockedHasTimer ==
  (solenoid = "HIGH" /\ pc # "hold") => unlockTimerActive

\* the door is unlocked on the timed path, and it is held by the override
C5_Witness == solenoid = "HIGH" /\ pc = "unlockTimer" /\ unlockTimerActive

\* C6: while the solenoid is energized, a call of checkManualUnlock changes
\* nothing: no manual unlock, no rejection feedback (no delay), no change of
\* manualUnlocked, of the debounce state or of lastActivityTime.
C6_ButtonIgnoredWhileUnlocked ==
  [][(ButtonCheckStep /\ solenoid = "HIGH")
       => /\ pc' = "unlockTimer"
          /\ UNCHANGED <<millis, solenoid, unlockStartTime, sessionStartTime,
                         lastActivityTime, lastDebounceTime,
                         unlockTimerActive, sessionModeActive, unlockedByAuth,
                         manualUnlocked, sleepEnabled, lastButtonState,
                         buttonState>>]_vars

\* checkManualUnlock has just run with the door unlocked and the button held
\* down for longer than the debounce time, a manual unlock being permitted,
\* and no press was registered
C6_Witness ==
  /\ pc = "unlockTimer"
  /\ solenoid = "HIGH"
  /\ unlockTimerActive
  /\ button = "LOW"
  /\ lastButtonState = "LOW"
  /\ buttonState = "HIGH"
  /\ Gt(Sub(millis, lastDebounceTime), ULong(DEBOUNCE_DELAY))
  /\ ManualEligible

\* C7: the processor is suspended only while the solenoid is de-energized.
C7_NoSleepWhileUnlocked == pc = "asleep" => solenoid = "LOW"

\* checkSleep has just returned without suspending although sleep is enabled
\* and the inactivity time is over: the door is unlocked
C7_Witness ==
  /\ pc = "rfid"
  /\ solenoid = "HIGH"
  /\ sleepEnabled
  /\ Gt(Sub(millis, lastActivityTime), ULong(SLEEP_AFTER_TIME))

\* C8: a serial lock command leaves the solenoid de-energized and the unlock
\* timer off and updates lastActivityTime, in any state; with the timer off
\* handleUnlockTimer changes nothing, and only unlockDoor switches it on.
C8_SerialLock ==
  /\ [][(serialCommand("l") \/ serialCommand("L"))
          => /\ solenoid' = "LOW"
             /\ ~unlockTimerActive'
             /\ lastActivityTime' = millis]_vars
  /\ [][(pc = "unlockTimer" /\ pc' # "unlockTimer" /\ ~unlockTimerActive)
          => UNCHANGED <<solenoid, unlockTimerActive, lastActivityTime>>]_vars
  /\ [][(~unlockTimerActive /\ unlockTimerActive')
          => /\ solenoid = "LOW" /\ solenoid' = "HIGH"
             /\ unlockStartTime' = millis]_vars

\* a serial lock has just ended a timed unlock that had time left
C8_Witness ==
  /\ pc = "serial"
  /\ solenoid = "LOW"
  /\ ~unlockTimerActive
  /\ unlockedByAuth
  /\ lastActivityTime = millis
  /\ ~Expired(millis, unlockStartTime, UNLOCK_TIME)

\* C9 as claimed: a debounced press while locked with unlockedByAuth false
\* never energizes the solenoid and leaves unlockedByAuth, manualUnlocked,
\* sessionModeActive and unlockTimerActive unchanged.
C9_UnauthPressRejected ==
  [][(PressStep /\ ~unlockedByAuth)
       => /\ solenoid' = "LOW"
          /\ UNCHANGED <<unlockedByAuth, manualUnlocked, sessionModeActive,
                         unlockTimerActive>>]_vars

\* C9 as amended: the same, for a press with unlockedByAuth false and session
\* mode inactive.
C9_UnauthPressRejectedNoSession ==
  [][(PressStep /\ ~unlockedByAuth /\ ~sessionModeActive)
       => /\ solenoid' = "LOW"
          /\ pc' = "unlockTimer"
          /\ UNCHANGED <<unlockedByAuth, manualUnlocked, sessionModeActive,
                         unlockTimerActive>>]_vars

\* a press was just rejected (the flashes are over) with unlockedByAuth false
\* and no session
C9_Witness ==
  /\ pc = "unlockTimer"
  /\ solenoid = "LOW"
  /\ buttonState = "LOW"
  /\ ~unlockedByAuth
  /\ ~sessionModeActive
  /\ ~manualUnlocked
  /\ millis = Add(lastActivityTime, ULong(FLASH_DELAY))

\* C10: while the solenoid is energized, every serial character other than
\* lock and status leaves the lock state, the unlock timer, the session
\* state, the auth flags and sleepEnabled unchanged.
C10_OtherCommandsIgnoredWhileUnlocked ==
  [][(solenoid = "HIGH"
        /\ \E c \in Commands \ {"l", "L", "s", "S"} : serialCommand(c))
       => UNCHANGED <<solenoid, unlockStartTime, unlockTimerActive,
                      sessionStartTime, sessionModeActive, unlockedByAuth,
                      manualUnlocked, sleepEnabled>>]_vars

\* a character was just read while the door was unlocked, after the unlock,
\* and the door is still unlocked with its timer running
C10_Witness ==
  /\ pc = "serial"
  /\ solenoid = "HIGH"
  /\ unlockTimerActive
  /\ lastActivityTime = millis
  /\ lastActivityTime # unlockStartTime

\* the step is a call of handleUnlockTimer()
UnlockTimerStep == pc = "unlockTimer" /\ pc' = "sessionTimer"

\* milliseconds since unlockStartTime, as the code computes them, are less
\* than UNLOCK_TIME
BeforeUnlockTimeout ==
  Gt(ULong(UNLOCK_TIME), Sub(millis, unlockStartTime))

\* C12: with the timer armed at unlockStartTime, handleUnlockTimer leaves
\* the door and the timer alone while less than UNLOCK_TIME has elapsed,
\* re-locks and disarms at every call made from UNLOCK_TIME on, and does
\* nothing at any elapsed time once the timer was cancelled.
C12_UnlockTimerBoundaries ==
  /\ [][(UnlockTimerStep /\ unlockTimerActive /\ BeforeUnlockTimeout)
          => UNCHANGED <<solenoid, unlockTimerActive, lastActivityTime>>]_vars
  /\ [][(UnlockTimerStep /\ unlockTimerActive /\ ~BeforeUnlockTimeout)
          => (solenoid' = "LOW" /\ ~unlockTimerActive'
              /\ lastActivityTime' = millis)]_vars
  /\ [][(UnlockTimerStep /\ ~unlockTimerActive)
          => UNCHANGED <<solenoid, unlockTimerActive, lastActivityTime,
                         unlockStartTime>>]_vars

\* handleUnlockTimer has just run with the timer cancelled by a serial lock
\* and UNLOCK_TIME over since the unlock, and did not fire
C12_Witness ==
  /\ pc = "sessionTimer"
  /\ solenoid = "LOW"
  /\ unlockedByAuth
  /\ ~unlockTimerActive
  /\ ~BeforeUnlockTimeout
  /\ Gt(ULong(UNLOCK_TIME), Sub(lastActivityTime, unlockStartTime))

\* handleUnlockTimer has just run with the timer armed and less than
\* UNLOCK_TIME elapsed, some time after the unlock: the door is still open
C12_WitnessEarly ==
  /\ pc = "sessionTimer"
  /\ solenoid = "HIGH"
  /\ unlockTimerActive
  /\ BeforeUnlockTimeout
  /\ millis # unlockStartTime

\* the step calls unlockDoor(): a card or a serial unlock is accepted
AcceptStep ==
  /\ solenoid = "LOW"
  /\ solenoid' = "HIGH"
  /\ unlockTimerActive'

\* C13 as claimed: after every acceptance session mode is active and
\* sessionStartTime is the time of the acceptance, also when a session was
\* active before.
C13_AcceptRenewsSession ==
  [][AcceptStep => (sessionModeActive' /\ sessionStartTime' = millis)]_vars

\* C13 as amended: after every acceptance session mode is active; the
\* acceptance sets sessionStartTime to its own time when no session was
\* active and leaves sessionStartTime alone when one was.
C13_AcceptStartsSession ==
  [][AcceptStep
       => /\ sessionModeActive'
          /\ sessionStartTime' = (IF sessionModeActive THEN sessionStartTime
                                                       ELSE millis)]_vars

\* a card was just accepted during a session that had started earlier
C13_Witness ==
  /\ pc = "serial"
  /\ solenoid = "HIGH"
  /\ unlockStartTime = millis
  /\ sessionModeActive
  /\ Gt(unlockStartTime, sessionStartTime)

\* the step is a call of checkRFID()
RFIDStep == pc = "rfid" /\ pc' = "serial"

\* C14: a call of checkRFID while the door is unlocked changes nothing,
\* whatever card is in the field: the unlock timer is not restarted, the
\* auth flags and the session are untouched, the card is not even read.
C14_ScanIgnoredWhileUnlocked ==
  [][(RFIDStep /\ solenoid = "HIGH")
       => UNCHANGED <<millis, solenoid, card, unlockStartTime,
                      sessionStartTime, lastActivityTime, unlockTimerActive,
                      sessionModeActive, unlockedByAuth, manualUnlocked,
                      sleepEnabled>>]_vars

\* checkRFID has just returned with an authorized card in the field, the
\* door unlocked since an earlier time, the card unread and the timer as
\* it was
C14_Witness ==
  /\ pc = "serial"
  /\ solenoid = "HIGH"
  /\ card # NoCard
  /\ Authorized(card)
  /\ unlockTimerActive
  /\ Gt(millis, unlockStartTime)
  /\ Gt(millis, lastActivityTime)

\* the step is a call of checkRFID() that reads an authorized card
CardAcceptStep ==
  /\ RFIDStep
  /\ solenoid = "LOW"
  /\ card # NoCard
  /\ Authorized(card)

\* the step is a pass of checkSerial() that reads an unlock command while
\* the door is locked
SerialUnlockStep ==
  /\ solenoid = "LOW"
  /\ (serialCommand("u") \/ serialCommand("U"))

\* C15: from a locked state, an accepted card and a serial unlock command
\* leave the same controller state, a function of the state before:
\* solenoid energized, timer armed at the present time, unlockedByAuth set,
\* manualUnlocked clear, session active (started now unless it was
\* active), lastActivityTime the present time.
C15_SerialUnlockLikeCard ==
  [][(CardAcceptStep \/ SerialUnlockStep)
       => /\ solenoid' = "HIGH"
          /\ unlockStartTime' = millis
          /\ unlockTimerActive'
          /\ unlockedByAuth'
          /\ ~manualUnlocked'
          /\ sessionModeActive'
          /\ sessionStartTime' = (IF sessionModeActive THEN sessionStartTime
                                                       ELSE millis)
          /\ lastActivityTime' = millis
          /\ UNCHANGED sleepEnabled]_vars

\* a serial unlock command was just obeyed (its delay(10) is over): the
\* flags, the timer and the session are those an accepted card leaves
C15_Witness ==
  /\ pc = "serial"
  /\ solenoid = "HIGH"
  /\ card = NoCard
  /\ millis = Add(unlockStartTime, ULong(SERIAL_DELAY))
  /\ lastActivityTime = unlockStartTime
  /\ unlockTimerActive
  /\ unlockedByAuth
  /\ ~manualUnlocked
  /\ sessionModeActive
  /\ sessionStartTime = unlockStartTime

\* the step is a call of handleSessionTimer()
SessionTimerStep == pc = "sessionTimer" /\ pc' = "sleep"

\* C16: a call of handleSessionTimer that finds the session expired clears
\* sessionModeActive and changes nothing else: not the solenoid, the
\* unlock timer, the auth flags or lastActivityTime.
C16_SessionExpiryOnly ==
  [][(SessionTimerStep /\ sessionModeActive
        /\ Geq(Sub(millis, sessionStartTime), ULong(SESSION_DURATION)))
       => /\ ~sessionModeActive'
          /\ UNCHANGED <<millis, solenoid, unlockStartTime, sessionStartTime,
                         lastActivityTime, unlockTimerActive, unlockedByAuth,
                         manualUnlocked, sleepEnabled>>]_vars

\* the session has just expired while the door was unlocked on its timer:
\* the door is still unlocked and the timer still armed
C16_Witness ==
  /\ pc = "sleep"
  /\ ~sessionModeActive
  /\ solenoid = "HIGH"
  /\ unlockTimerActive
  /\ unlockedByAuth
  /\ Geq(Sub(millis, sessionStartTime), ULong(SESSION_DURATION))

\* C17: a granted press energizes the solenoid without arming the unlock
\* timer; during the hold nothing happens in the sketch but the end of the
\* hold, exactly UNLOCK_TIME later, which de-energizes the solenoid
\* whatever arrived meanwhile, sets manualUnlocked and leaves the timer
\* off; a card arriving during the hold stays unread.
C17_HoldBlocks ==
  /\ [][(PressStep /\ pc' = "hold")
          => (solenoid' = "HIGH" /\ ~unlockTimerActive'
              /\ UNCHANGED millis)]_vars
  /\ [](pc = "hold" => (solenoid = "HIGH" /\ ~unlockTimerActive))
  /\ [][pc = "hold"
          => \/ /\ card = NoCard
                /\ card' # NoCard
                /\ UNCHANGED <<pc, millis, solenoid, unlockStartTime,
                               sessionStartTime, lastActivityTime,
                               unlockTimerActive, sessionModeActive,
                               unlockedByAuth, manualUnlocked>>
             \/ /\ pc' = "unlockTimer"
                /\ millis' = Add(millis, ULong(UNLOCK_TIME))
                /\ solenoid' = "LOW"
                /\ manualUnlocked'
                /\ ~unlockTimerActive'
                /\ UNCHANGED <<card, unlockStartTime, sessionStartTime,
                               lastActivityTime, sessionModeActive,
                               unlockedByAuth>>]_vars

\* the hold has just ended, UNLOCK_TIME after the press, with a card that
\* arrived during the hold still unread: the door is locked
C17_Witness ==
  /\ pc = "unlockTimer"
  /\ solenoid = "LOW"
  /\ manualUnlocked
  /\ ~unlockTimerActive
  /\ buttonState = "LOW"
  /\ card # NoCard
  /\ millis = Add(lastActivityTime, ULong(UNLOCK_TIME))

\* the calls of loop(), in the order of its body
LoopOrder ==
  <<"rfid", "serial", "button", "unlockTimer", "sessionTimer", "sleep">>

\* handler q is called right after handler p, in one pass of loop() or from
\* the last call of one pass to the first of the next
FollowsInLoop(p, q) ==
  \/ \E i \in 1..(Len(LoopOrder) - 1) : LoopOrder[i] = p /\ LoopOrder[i + 1] = q
  \/ p = LoopOrder[Len(LoopOrder)] /\ q = LoopOrder[1]

\* C18: in every pass of loop() the card check comes before the serial and
\* button checks, these before the two timer checks, these before the
\* sleep check; a later check acts on what the earlier ones wrote: the
\* button check does nothing when the door was unlocked earlier in the
\* pass, and the sleep check decides on the solenoid and lastActivityTime
\* as the timer check left them.
C18_OrderWithinTick ==
  /\ [][pc' # pc
          => \/ FollowsInLoop(pc, pc')
             \/ pc = "button" /\ pc' = "hold"
             \/ pc = "hold" /\ pc' = "unlockTimer"
             \/ pc = "sleep" /\ pc' = "asleep"
             \/ pc = "asleep" /\ pc' = "rfid"]_vars
  /\ [][(ButtonCheckStep /\ solenoid = "HIGH" /\ unlockStartTime = millis)
          => UNCHANGED <<millis, solenoid, lastActivityTime, lastDebounceTime,
                         manualUnlocked, lastButtonState, buttonState>>]_vars
  /\ [][(pc = "sleep" /\ pc' # "sleep")
          => (pc' = "asleep"
                <=> /\ sleepEnabled
                    /\ solenoid = "LOW"
                    /\ Gt(Sub(millis, lastActivityTime),
                          ULong(SLEEP_AFTER_TIME)))]_vars

\* a card was accepted at this very time and the button check that
\* followed did nothing, although the button has been down for longer than
\* the debounce time and a manual unlock is permitted
C18_Witness ==
  /\ pc = "unlockTimer"
  /\ solenoid = "HIGH"
  /\ unlockStartTime = millis
  /\ card = NoCard
  /\ button = "LOW"
  /\ lastButtonState = "LOW"
  /\ buttonState = "HIGH"
  /\ Gt(Sub(millis, lastDebounceTime), ULong(DEBOUNCE_DELAY))
  /\ ManualEligible

\* sleep is enabled, the door is locked and more than SLEEP_AFTER_TIME has
\* passed since lastActivityTime
Idle ==
  /\ sleepEnabled
  /\ solenoid = "LOW"
  /\ Gt(Sub(millis, lastActivityTime), ULong(SLEEP_AFTER_TIME))

\* C19: once sleep is enabled, the door locked and the last activity more
\* than SLEEP_AFTER_TIME ago, the processor is suspended unless an input
\* ends that condition first; suspending and resuming change neither the
\* lock, the auth flags, the session nor the unlock timer; resuming sets
\* lastActivityTime to the time of the wake-up, and the processor is only
\* ever suspended more than SLEEP_AFTER_TIME after lastActivityTime.
C19_SleepWhenIdle ==
  /\ (Idle /\ pc # "asleep") ~> (pc = "asleep" \/ ~Idle)
  /\ [][(pc = "asleep" \/ pc' = "asleep")
          => UNCHANGED <<solenoid, unlockStartTime, sessionStartTime,
                         unlockTimerActive, sessionModeActive, unlockedByAuth,
                         manualUnlocked, sleepEnabled>>]_vars
  /\ [][(pc = "asleep" /\ pc' # "asleep")
          => (lastActivityTime' = millis' /\ ~Idle')]_vars
  /\ [][(pc # "asleep" /\ pc' = "asleep") => Idle]_vars

\* the processor was suspended after SLEEP_AFTER_TIME without input and
\* has just resumed: lastActivityTime is the present time
C19_Witness ==
  /\ pc = "rfid"
  /\ solenoid = "LOW"
  /\ button = "LOW"
  /\ sleepEnabled
  /\ lastActivityTime = millis
  /\ millis = ULong(STARTUP_DELAY + SLEEP_AFTER_TIME + 1 + SLEEP_ENTRY_DELAY)

\* C20: the processor is suspended only with sleepEnabled set and more
\* than SLEEP_AFTER_TIME after lastActivityTime; every card read (accepted
\* or rejected), every serial character and every debounced press
\* (granted or rejected) sets lastActivityTime to the time it is handled,
\* and lastActivityTime is only ever set to the present time.
C20_NoSleepAfterInput ==
  /\ [](pc = "asleep"
          => /\ sleepEnabled
             /\ Gt(Sub(millis, lastActivityTime), ULong(SLEEP_AFTER_TIME)))
  /\ [][(RFIDStep /\ card' # card) => lastActivityTime' = millis']_vars
  /\ [][(\E c \in Commands : serialCommand(c))
          => lastActivityTime' = millis]_vars
  /\ [][PressStep => lastActivityTime' = millis]_vars
  /\ [][lastActivityTime' # lastActivityTime
          => lastActivityTime' \in {millis, millis'}]_vars

\* checkSleep has just returned without suspending, with the door locked
\* and the last input more than SLEEP_AFTER_TIME ago: sleep is disabled
C20_Witness ==
  /\ pc = "rfid"
  /\ ~sleepEnabled
  /\ solenoid = "LOW"
  /\ Gt(lastActivityTime, ULong(0))
  /\ Gt(Sub(millis, lastActivityTime), ULong(SLEEP_AFTER_TIME))

\* a step that stays inside one pass of loop(): no wdt_reset() runs in it
WithinTick == pc' # "rfid"

\* C21: the blocking hold of the manual override keeps the time between two
\* wdt_reset() calls under the watchdog period: the step that runs the hold
\* (inside one pass of loop) moves millis() by less than WATCHDOG_PERIOD
C21_HoldUnderWatchdog ==
  [][(pc = "hold" /\ pc' # "hold" /\ WithinTick)
       => Gt(ULong(WATCHDOG_PERIOD), Sub(millis', millis))]_vars

\* C22: checkSerial() returns for every stream of serial input: every pass of
\* its while loop leaves fewer characters pending than it found, so that the
\* loop ends and the pass of loop() goes on
C22_SerialInputDrains ==
  [][(\E c \in Commands : serialRead(c)) => rxPending' < rxPending]_vars

\* checkSerial() reads the sleep toggle command
SleepToggleStep == serialCommand("z") \/ serialCommand("Z")

\* C23: the sleep toggle command, read while the door is locked, flips
\* sleepEnabled (so that two toggles in a row give the value back) and leaves
\* the lock state, the unlock timer, the authentication flags and the session
\* state as they are; checkSerial() goes on, the processor is not suspended
C23_SleepToggleOnly ==
  [][(SleepToggleStep /\ ~isDoorUnlocked)
       => /\ sleepEnabled' = ~sleepEnabled
          /\ UNCHANGED <<solenoid, unlockTimerActive, unlockStartTime,
                         unlockedByAuth, manualUnlocked, sessionModeActive,
                         sessionStartTime>>
          /\ pc' = "serial"]_vars

\* the toggle, the first command after setup(), has just turned sleep off
C23_Witness ==
  /\ pc = "serial"
  /\ ~sleepEnabled
  /\ solenoid = "LOW"
  /\ ~sessionModeActive
  /\ millis = ULong(STARTUP_DELAY + SERIAL_DELAY)
  /\ lastActivityTime = ULong(STARTUP_DELAY)

\* checkSerial() reads the status command, which runs printStatus()
StatusStep == serialCommand("s") \/ serialCommand("S")

\* C24: whenever printStatus() runs with sessionModeActive true, the session
\* time it reports lies between 0 and SESSION_DURATION / 60000 = 120 minutes
C24_SessionMinutesInRange ==
  [][(StatusStep /\ sessionModeActive)
       => printStatus(millis) \in 0..(SESSION_DURATION \div MS_PER_MINUTE)]_vars

\* checkManualUnlock() grants the manual override: the solenoid is energized
\* and the blocking hold begins
GrantStep == pc = "button" /\ pc' = "hold"

\* the override can rest on the session only: no fresh authentication
SessionOnly == sessionModeActive /\ ~(unlockedByAuth /\ ~manualUnlocked)

\* C27: a manual override that only the session allows is never granted at
\* a time t with t - sessionStartTime >= SESSION_DURATION
C27_NoGrantAfterSessionEnd ==
  [][(GrantStep /\ SessionOnly)
       => ~Expired(millis, sessionStartTime, SESSION_DURATION)]_vars

\* C28: with the door locked again, checkManualUnlock() registers a press
\* (and unlocks or rejects) only for a LOW level that began after the
\* re-lock, never for one held since the door was unlocked
C28_NoPressFromUnlockedPeriod ==
  [][PressStep => ~heldSinceUnlocked]_vars

\* lock_v1 reads the unlock command
V1UnlockStep == v1_command("u") \/ v1_command("U")

\* lock_v1 runs its timer check
V1TimerStep == pc = "v1_timer" /\ pc' = "v1_command"

\* C25: in lock_v1 an unlock command restarts the unlock timer, also when
\* the timer is already running; nothing else moves unlockStartTime; and the
\* timer check re-locks exactly when millis() - unlockStartTime has reached
\* unlockTime, counted from the latest unlock command
C25_RearmOverwrites ==
  /\ [][V1UnlockStep => /\ unlockStartTime' = millis
                        /\ unlockTimerActive'
                        /\ solenoid' = "HIGH"]_vars
  /\ [][unlockStartTime' # unlockStartTime => V1UnlockStep]_vars
  /\ [][(V1TimerStep /\ unlockTimerActive)
          => IF Expired(millis, unlockStartTime, unlockTime)
               THEN solenoid' = "LOW" /\ ~unlockTimerActive'
               ELSE UNCHANGED <<solenoid, unlockTimerActive>>]_vars

\* an unlock at 0, a second one V1_SHORT later, and the timer check that
\* re-locked unlockTime after the second one
C25_Witness ==
  /\ pc = "v1_command"
  /\ solenoid = "LOW"
  /\ ~unlockTimerActive
  /\ unlockedByAuth
  /\ ~manualUnlocked
  /\ button = "HIGH"
  /\ unlockStartTime = ULong(V1_SHORT)
  /\ millis = ULong(V1_SHORT + unlockTime)
  /\ budget = MaxV1Advances - 3

\* lock_v1 energizes the solenoid for the button: the manual re-unlock begins
V1GrantStep == pc = "v1_manual" /\ pc' = "v1_hold"

\* C29: in lock_v1 the button energizes the solenoid only after an unlock
\* command and only while manualUnlocked is false; the re-unlock holds the
\* solenoid HIGH for unlockTime, releases it and sets manualUnlocked, which
\* only the next unlock command clears: at most one manual re-unlock follows
\* an unlock command, and none comes before the first
C29_OneReunlockPerUnlock ==
  /\ [][V1GrantStep => (unlockedByAuth /\ ~manualUnlocked)]_vars
  /\ [][(pc = "v1_hold" /\ pc' # "v1_hold")
          => /\ manualUnlocked'
             /\ solenoid' = "LOW"
             /\ Geq(Sub(millis', millis), ULong(unlockTime))]_vars
  /\ [][(manualUnlocked /\ ~manualUnlocked') => V1UnlockStep]_vars
  /\ [][(~unlockedByAuth /\ unlockedByAuth') => V1UnlockStep]_vars
  /\ [][(solenoid = "LOW" /\ solenoid' = "HIGH")
          => (V1UnlockStep \/ V1GrantStep)]_vars

\* after one unlock command and one manual re-unlock, a whole iteration of
\* loop() has run with the button still pressed and has left the door locked
C29_Witness ==
  /\ pc = "v1_pressed"
  /\ button = "LOW"
  /\ unlockedByAuth
  /\ manualUnlocked
  /\ solenoid = "LOW"
  /\ ~unlockTimerActive
  /\ unlockStartTime = ULong(0)
  /\ millis = ULong(unlockTime + V1_REUNLOCK_DELAY + V1_BUTTON_DELAY)

\* C30: at the end of every iteration of loop() of lock_v1, a solenoid pin
\* that is LOW comes with unlockTimerActive false
C30_LockedMeansNoTimer ==
  pc = "v1_pressed" => (solenoid = "LOW" => ~unlockTimerActive)

\* the step runs the end of loop(), where updateDisplay() is called
DisplayStep == pc = "o_display" /\ pc' = "o_top"

\* a temporary message or the status screen is on the display
DisplayBusy == temporaryMessageActive \/ statusScreenActive

\* C26: display of the OLED sketch.  A temporary message stays until an
\* updateDisplay() finds it TEMP_MESSAGE_DURATION old and then gives way to
\* the status screen; the status screen stays until an updateDisplay() finds
\* it STATUS_DISPLAY_DURATION old and then gives way to the intro screen;
\* the screen shown is the one the two flags stand for; updateDisplay()
\* leaves the lock state, the unlock timer and the authentication flags
\* alone; and once no further message comes, both flags become false.
C26_DisplayCycle ==
  /\ [][(temporaryMessageActive /\ ~temporaryMessageActive')
          => /\ DisplayStep
             /\ Expired(millis, tempMessageStartTime, TEMP_MESSAGE_DURATION)
             /\ statusScreenActive'
             /\ statusScreenStartTime' = millis
             /\ screen' = "status"]_vars
  /\ [][(statusScreenActive /\ ~statusScreenActive')
          => /\ DisplayStep
             /\ ~temporaryMessageActive
             /\ Expired(millis, statusScreenStartTime, STATUS_DISPLAY_DURATION)
             /\ screen' = "intro"]_vars
  /\ [](screen = IF temporaryMessageActive THEN "message"
                 ELSE IF statusScreenActive THEN "status"
                 ELSE "intro")
  /\ [][DisplayStep => UNCHANGED <<solenoid, unlockTimerActive, unlockStartTime,
                                   unlockedByAuth, manualUnlocked>>]_vars
  /\ (DisplayBusy ~> (~DisplayBusy /\ screen = "intro"))

\* the door has locked again with its message, the message has had its
\* time and so has the status screen after it: the intro screen is back
C26_Witness ==
  /\ screen = "intro"
  /\ ~DisplayBusy
  /\ solenoid = "LOW"
  /\ unlockedByAuth
  /\ Geq(Sub(tempMessageStartTime, unlockStartTime), ULong(UNLOCK_TIME))
  /\ Geq(Sub(statusScreenStartTime, tempMessageStartTime),
         ULong(TEMP_MESSAGE_DURATION))
  /\ Expired(millis, statusScreenStartTime, STATUS_DISPLAY_DURATION)

\* checkManualUnlock() handles a Pressed event: it notes the activity and
\* either starts the manual unlock or flashes the rejection
PressedEvent ==
  /\ ButtonCheckStep
  /\ solenoid = "LOW"
  /\ lastActivityTime' = millis
  /\ pc' = "hold" \/ millis' = Add(millis, ULong(FLASH_DELAY))

\* C31: a Pressed event takes the debounced buttonState from HIGH to LOW;
\* buttonState changes only in checkManualUnlock() and goes back to HIGH only
\* at a call that reads the raw level HIGH, as the call before it did, more
\* than DEBOUNCE_DELAY after the last change it saw; the blocking hold leaves
\* buttonState LOW.  So a button held LOW gives one Pressed event and no
\* second manual override or rejection, also after the hold.
C31_HeldButtonPressesOnce ==
  /\ [][PressedEvent => (button = "LOW" /\ buttonState = "HIGH"
                         /\ buttonState' = "LOW")]_vars
  /\ [][buttonState' # buttonState => ButtonCheckStep]_vars
  /\ [][(buttonState = "LOW" /\ buttonState' = "HIGH")
          => /\ button = "HIGH"
             /\ lastButtonState = "HIGH"
             /\ Gt(Sub(millis, lastDebounceTime), ULong(DEBOUNCE_DELAY))]_vars
  /\ [][(pc = "hold" /\ pc' # "hold")
          => (buttonState' = "LOW" /\ lastButtonState' = "LOW")]_vars

\* the manual override has run in session mode and the button is still
\* held: a later call of checkManualUnlock() has found the level LOW for
\* longer than DEBOUNCE_DELAY, the door locked and the session still on, and
\* has passed control on without an event
C31_Witness ==
  /\ pc = "unlockTimer"
  /\ Gt(Sub(millis, lastActivityTime), ULong(UNLOCK_TIME))
  /\ button = "LOW"
  /\ buttonState = "LOW"
  /\ lastButtonState = "LOW"
  /\ solenoid = "LOW"
  /\ manualUnlocked
  /\ sessionModeActive
  /\ Gt(Sub(millis, lastDebounceTime), ULong(UNLOCK_TIME))
  /\ steadyFor > DEBOUNCE_DELAY

\* C32: at the end of every iteration of loop() (control is at the top of
\* loop() or the processor is suspended) the solenoid pin is HIGH exactly
\* when unlockTimerActive is true; the blocking manual unlock never runs
\* with unlockTimerActive true, and the processor is never suspended with it
C32_EnergizedIffTimerActive ==
  /\ pc \in {"rfid", "asleep"} => (solenoid = "HIGH" <=> unlockTimerActive)
  /\ pc = "hold" => ~unlockTimerActive
  /\ pc = "asleep" => ~unlockTimerActive

\* an iteration of loop() has ended during a timed unlock, with the button
\* held: the pin is HIGH, the timer runs and checkManualUnlock() has returned
\* at once
C32_Witness ==
  /\ pc = "rfid"
  /\ solenoid = "HIGH"
  /\ unlockTimerActive
  /\ Gt(millis, unlockStartTime)
  /\ button = "LOW"
  /\ steadyFor > DEBOUNCE_DELAY

\* millis() has overflowed since the timestamp start was assigned
Wrapped(start) == Gt(start, millis)

\* C33: with millis() close to its overflow, handleUnlockTimer() locks the
\* door exactly when UNLOCK_TIME ms or more have been counted since
\* unlockStartTime was assigned, handleSessionTimer() ends the session
\* exactly when SESSION_DURATION ms or more have been counted since
\* sessionStartTime was assigned, and checkSleep() suspends the processor
\* (sleep enabled, door locked) exactly when more than SLEEP_AFTER_TIME ms
\* have been counted since lastActivityTime was assigned, whether millis()
\* has overflowed in between or not
C33_TimersSurviveOverflow ==
  /\ [][(UnlockTimerStep /\ unlockTimerActive)
          => (~unlockTimerActive' <=> sinceUnlock >= UNLOCK_TIME)]_vars
  /\ [][(SessionTimerStep /\ sessionModeActive)
          => (~sessionModeActive' <=> sinceSession >= SESSION_DURATION)]_vars
  /\ [][(pc = "sleep" /\ pc' # "sleep" /\ sleepEnabled /\ solenoid = "LOW")
          => (pc' = "asleep" <=> sinceActivity > SLEEP_AFTER_TIME)]_vars

\* unlockStartTime was assigned before the overflow of millis() and
\* handleUnlockTimer() has just locked the door after it, UNLOCK_TIME ms or
\* more later
C33_Witness ==
  /\ pc = "sessionTimer"
  /\ Wrapped(unlockStartTime)
  /\ unlockStartTime # ULong(0)
  /\ sinceUnlock >= UNLOCK_TIME
  /\ ~unlockTimerActive
  /\ solenoid = "LOW"
  /\ lastActivityTime = millis
  /\ sinceActivity = 0

====
